---- MODULE Spec2Model ----
(***************************************************************************)
(* The DSL engine of the astro CLI: lexer -> parser -> AST -> evaluator,   *)
(* and the natal command's --check branch that drives it.                  *)
(*                                                                         *)
(* A Python str is a sequence of one-character strings, so that scanning,  *)
(* int()/float() conversion and code-point ordering are computed.          *)
(***************************************************************************)
EXTENDS Integers, Sequences, FiniteSets, TLC

VARIABLES
    pc,          \* position of the driver: which call is about to run / has returned
    chart_data,  \* Evaluator.chart_data
    ast,         \* the AST handed to Evaluator.evaluate / returned by Parser.parse
    result,      \* outcome of the call (value or raised exception)
    check,       \* the formula text (the --check option, Lexer.text)
    token_list,  \* the list tokenize returned (Parser.tokens)
    stdout,      \* what the natal command echoed to standard output
    stderr,      \* what the natal command echoed to standard error
    exit_code,   \* exit status of the natal command
    cache_data,  \* JsonCache._data: the entries <<key, value>> in memory
    path_file,   \* the file at JsonCache.path: None (absent) or a document
    temp_files,  \* the temporary files of _write_atomic, by thread
    global_cache,\* input_pipeline._global_cache: None or a JsonCache instance
    created,     \* the JsonCache instances constructed since the last reset
    thread,      \* the position and the locals of every thread
    lexer,       \* the Lexer while tokenize runs step by step: pos, line, column
    frame,       \* the locals of tokenize and of the sub-scanner it is in
    stack,       \* the _eval_* calls in progress, innermost last: node and stage
    visited      \* the leaf nodes evaluated so far, in the order of evaluation

cache_vars == <<cache_data, path_file, temp_files, global_cache, created, thread>>
scan_vars == <<lexer, frame>>
walk_vars == <<stack, visited>>

vars == <<pc, chart_data, ast, result, check, token_list, stdout, stderr, exit_code,
          cache_data, path_file, temp_files, global_cache, created, thread,
          lexer, frame, stack, visited>>

None == [st |-> "None"]

\* No Lexer at work: the state of the scanner variables where tokenize is one
\* step.
NoScan == lexer = None /\ frame = None

\* No evaluation in progress: the state of the call stack where evaluate is
\* one step.
NoWalk == stack = <<>> /\ visited = <<>>

\* No cache and no thread: the state of the cache variables in the
\* specifications of the formula language.
NoCache ==
    /\ cache_data = {}
    /\ path_file = None
    /\ temp_files = <<>>
    /\ global_cache = None
    /\ created = {}
    /\ thread = <<>>

(***************************************************************************)
(* Characters and strings                                                  *)
(***************************************************************************)
\* A character is a one-character string; the characters TLA+ cannot write
\* in a string literal, and the non-ASCII ones, are named.
TAB == "<TAB>"
NEWLINE == "<LF>"
DQUOTE == "<DQUOTE>"
SQUOTE == "'"
BACKSLASH == "<BACKSLASH>"
SUPERSCRIPT_TWO == "<SUP2>"   \* U+00B2, a 'digit' that is not a decimal
E_ACUTE == "<E_ACUTE>"        \* U+00E9, a non-ASCII letter

Digits09 == <<"0", "1", "2", "3", "4", "5", "6", "7", "8", "9">>
UpperAZ == <<"A", "B", "C", "D", "E", "F", "G", "H", "I", "J", "K", "L", "M",
             "N", "O", "P", "Q", "R", "S", "T", "U", "V", "W", "X", "Y", "Z">>
LowerAZ == <<"a", "b", "c", "d", "e", "f", "g", "h", "i", "j", "k", "l", "m",
             "n", "o", "p", "q", "r", "s", "t", "u", "v", "w", "x", "y", "z">>
Punct == <<TAB, NEWLINE, " ", "!", DQUOTE, "#", "$", "&", SQUOTE, "(", ")", "+",
           ",", "-", ".", "<", "=", ">", "@", "[", BACKSLASH, "]", "_", "|",
           SUPERSCRIPT_TWO, E_ACUTE>>
PunctOrd == <<9, 10, 32, 33, 34, 35, 36, 38, 39, 40, 41, 43,
              44, 45, 46, 60, 61, 62, 64, 91, 92, 93, 95, 124,
              178, 233>>

Range(s) == {s[i] : i \in 1..Len(s)}

\* Index of the first occurrence of c in s, 0 when absent.
IndexOf(s, c) ==
    IF \E i \in 1..Len(s) : s[i] = c
    THEN CHOOSE i \in 1..Len(s) : s[i] = c /\ \A j \in 1..(i - 1) : s[j] # c
    ELSE 0

\* ord(c): the code point, which decides the order of strings.
Ord(c) ==
    IF c \in Range(Digits09) THEN 47 + IndexOf(Digits09, c)
    ELSE IF c \in Range(UpperAZ) THEN 64 + IndexOf(UpperAZ, c)
    ELSE IF c \in Range(LowerAZ) THEN 96 + IndexOf(LowerAZ, c)
    ELSE PunctOrd[IndexOf(Punct, c)]

DecimalDigits == Range(Digits09)
UpperLetters == Range(UpperAZ)
LowerLetters == Range(LowerAZ)

\* str.isdecimal(): the characters int() reads as digits.
IsDecimal(c) == c \in DecimalDigits
\* str.isdigit(): decimal digits and the Unicode digit characters such as
\* SUPERSCRIPT TWO, which int() and float() reject.
IsDigit(c) == c \in DecimalDigits \cup {SUPERSCRIPT_TWO}
\* str.isalpha(): any Unicode letter.
IsAlpha(c) == c \in UpperLetters \cup LowerLetters \cup {E_ACUTE}
\* str.isalnum()
IsAlnum(c) == IsAlpha(c) \/ IsDigit(c)
\* str.isspace()
IsSpace(c) == c \in {" ", TAB, NEWLINE}

DigitVal(c) == Ord(c) - 48

RECURSIVE Pow10(_)
Pow10(n) == IF n = 0 THEN 1 ELSE 10 * Pow10(n - 1)

\* Value of a run of decimal digits.
RECURSIVE DigitsVal(_)
DigitsVal(s) ==
    IF s = <<>> THEN 0
    ELSE 10 * DigitsVal(SubSeq(s, 1, Len(s) - 1)) + DigitVal(s[Len(s)])

\* str.strip() as int() applies it to its argument.
RECURSIVE LStrip(_)
LStrip(s) == IF s # <<>> /\ IsSpace(s[1]) THEN LStrip(Tail(s)) ELSE s
RECURSIVE RStrip(_)
RStrip(s) ==
    IF s # <<>> /\ IsSpace(s[Len(s)]) THEN RStrip(SubSeq(s, 1, Len(s) - 1)) ELSE s

(***************************************************************************)
(* Python values and the operators the evaluator applies to them           *)
(***************************************************************************)
\* A number is the exact decimal num/den, den a power of ten and num/den in
\* lowest decimal form, so that 1 and 1.0 are the same value.
RECURSIVE NormDec(_, _)
NormDec(n, d) == IF d > 1 /\ n % 10 = 0 THEN NormDec(n \div 10, d \div 10) ELSE <<n, d>>

PyBoolV(b) == [k |-> "Bool", b |-> b]
PyNum(n, d) == [k |-> "Number", num |-> NormDec(n, d)[1], den |-> NormDec(n, d)[2]]
PyInt(n) == PyNum(n, 1)
PyStr(s) == [k |-> "String", s |-> s]
PyList(l) == [k |-> "List", l |-> l]

IsNumeric(v) == v.k \in {"Bool", "Number"}
\* bool is a subclass of int: True is 1 and False is 0.
NumOf(v) == IF v.k = "Bool" THEN [num |-> IF v.b THEN 1 ELSE 0, den |-> 1]
            ELSE [num |-> v.num, den |-> v.den]

\* a == b
RECURSIVE PyEq(_, _)
PyEq(a, b) ==
    IF IsNumeric(a) /\ IsNumeric(b)
    THEN NumOf(a).num * NumOf(b).den = NumOf(b).num * NumOf(a).den
    ELSE IF a.k = "String" /\ b.k = "String" THEN a.s = b.s
    ELSE IF a.k = "List" /\ b.k = "List"
    THEN /\ Len(a.l) = Len(b.l)
         /\ \A i \in 1..Len(a.l) : PyEq(a.l[i], b.l[i])
    ELSE FALSE

\* bool(v)
PyTruth(v) ==
    CASE v.k = "Bool"   -> v.b
      [] v.k = "Number" -> v.num # 0
      [] v.k = "String" -> v.s # <<>>
      [] v.k = "List"   -> v.l # <<>>

\* Lexicographic comparison of two str by code point: "lt", "eq" or "gt".
RECURSIVE StrCmp(_, _)
StrCmp(s, t) ==
    IF s = <<>> /\ t = <<>> THEN "eq"
    ELSE IF s = <<>> THEN "lt"
    ELSE IF t = <<>> THEN "gt"
    ELSE IF Ord(s[1]) < Ord(t[1]) THEN "lt"
    ELSE IF Ord(s[1]) > Ord(t[1]) THEN "gt"
    ELSE StrCmp(Tail(s), Tail(t))

\* The ordering Python's <, >, <=, >= rest on: "lt", "eq", "gt", or
\* "TypeError" when the operands' types define no order.
RECURSIVE PyCmp(_, _)
PyCmp(a, b) ==
    IF IsNumeric(a) /\ IsNumeric(b)
    THEN LET x == NumOf(a).num * NumOf(b).den
             y == NumOf(b).num * NumOf(a).den
         IN  IF x < y THEN "lt" ELSE IF x > y THEN "gt" ELSE "eq"
    ELSE IF a.k = "String" /\ b.k = "String" THEN StrCmp(a.s, b.s)
    ELSE IF a.k = "List" /\ b.k = "List"
    THEN LET m == IF Len(a.l) < Len(b.l) THEN Len(a.l) ELSE Len(b.l)
             diff == {i \in 1..m : ~PyEq(a.l[i], b.l[i])}
         IN  IF diff # {}
             THEN LET first == CHOOSE i \in diff : \A j \in diff : i <= j
                  IN  PyCmp(a.l[first], b.l[first])
             ELSE IF Len(a.l) < Len(b.l) THEN "lt"
             ELSE IF Len(a.l) > Len(b.l) THEN "gt" ELSE "eq"
    ELSE "TypeError"

\* x in lst: any(x is e or x == e for e in lst); identity implies equality for
\* every value of the model (no NaN).
PyIn(x, lst) == \E i \in 1..Len(lst) : PyEq(x, lst[i])

(***************************************************************************)
(* Python dict: insertion-ordered sequence of [key, val] with distinct keys*)
(***************************************************************************)
DictHas(d, key) == \E i \in 1..Len(d) : d[i].key = key
DictGet(d, key) == d[CHOOSE i \in 1..Len(d) : d[i].key = key].val
DictKeys(d) == [i \in 1..Len(d) |-> d[i].key]
DictValues(d) == [i \in 1..Len(d) |-> d[i].val]
KV(key, val) == [key |-> key, val |-> val]

\* int(s) for a str s: surrounding whitespace is stripped, one sign is allowed,
\* and the digits may be grouped by single underscores.  [ok, val]; not ok is
\* ValueError.
IntLiteralOK(body) ==
    /\ body # <<>>
    /\ \A i \in 1..Len(body) : IsDecimal(body[i]) \/ body[i] = "_"
    /\ body[1] # "_" /\ body[Len(body)] # "_"
    /\ \A i \in 1..(Len(body) - 1) : ~(body[i] = "_" /\ body[i + 1] = "_")

RemoveUnderscores(body) == SelectSeq(body, LAMBDA c : c # "_")

\* An int() that accepts underscores anywhere among the digits.
PyIntOfStr_AnyUnderscore(s) ==
    LET t == RemoveUnderscores(RStrip(LStrip(s)))
    IN  IF t # <<>> /\ \A i \in 1..Len(t) : IsDecimal(t[i])
        THEN [ok |-> TRUE, val |-> DigitsVal(t)]
        ELSE [ok |-> FALSE, val |-> 0]

PyIntOfStr(s) ==
    LET t == RStrip(LStrip(s))
        signed == t # <<>> /\ t[1] \in {"+", "-"}
        body == IF signed THEN Tail(t) ELSE t
    IN  IF IntLiteralOK(body)
        THEN [ok |-> TRUE,
              val |-> IF signed /\ t[1] = "-"
                      THEN 0 - DigitsVal(RemoveUnderscores(body))
                      ELSE DigitsVal(RemoveUnderscores(body))]
        ELSE [ok |-> FALSE, val |-> 0]

(***************************************************************************)
(* Lexer (src/src/dsl/lexer.py)                                            *)
(* The scanner state lx is [pos, line, column]; current_char is text[pos],  *)
(* or None past the end.                                                   *)
(***************************************************************************)
NoChar == "<None>"

Token(type, value, line, column) ==
    [type |-> type, value |-> value, line |-> line, column |-> column]
LexerError(message, line, column) ==
    [st |-> "LexerError", message |-> message, line |-> line, column |-> column]

\* Lexer.__init__
LexerInit == [pos |-> 0, line |-> 1, column |-> 0]

\* self.current_char
CurrentChar(text, lx) == IF lx.pos < Len(text) THEN text[lx.pos + 1] ELSE NoChar

\* Lexer.advance
Advance(text, lx) ==
    [pos |-> lx.pos + 1,
     line |-> IF CurrentChar(text, lx) = NEWLINE THEN lx.line + 1 ELSE lx.line,
     column |-> IF CurrentChar(text, lx) = NEWLINE THEN 0 ELSE lx.column + 1]

\* Lexer.peek()
Peek(text, lx) == IF lx.pos + 1 < Len(text) THEN text[lx.pos + 2] ELSE NoChar

\* Lexer.skip_whitespace
RECURSIVE SkipWhitespace(_, _)
SkipWhitespace(text, lx) ==
    IF CurrentChar(text, lx) # NoChar /\ IsSpace(CurrentChar(text, lx))
    THEN SkipWhitespace(text, Advance(text, lx))
    ELSE lx

\* The while loop of skip_comment.
RECURSIVE SkipToNewline(_, _)
SkipToNewline(text, lx) ==
    IF CurrentChar(text, lx) # NoChar /\ CurrentChar(text, lx) # NEWLINE
    THEN SkipToNewline(text, Advance(text, lx))
    ELSE lx

\* skip_comment that steps over the '#' only.
SkipComment_HashOnly(text, lx) ==
    IF CurrentChar(text, lx) = "#"
    THEN Advance(text, lx)
    ELSE lx

\* Lexer.skip_comment
SkipComment(text, lx) ==
    IF CurrentChar(text, lx) = "#"
    THEN Advance(text, SkipToNewline(text, lx))
    ELSE lx

\* The digit loops of read_number: [lx, str].
RECURSIVE ReadDigits(_, _, _)
ReadDigits(text, lx, num_str) ==
    IF CurrentChar(text, lx) # NoChar /\ IsDigit(CurrentChar(text, lx))
    THEN ReadDigits(text, Advance(text, lx), Append(num_str, CurrentChar(text, lx)))
    ELSE [lx |-> lx, str |-> num_str]

\* Lexer.read_number: [lx, tok]
ReadNumber(text, lx) ==
    LET start_column == lx.column
        int_part == ReadDigits(text, lx, <<>>)
        has_fraction ==
            /\ CurrentChar(text, int_part.lx) = "."
            /\ Peek(text, int_part.lx) # NoChar
            /\ IsDigit(Peek(text, int_part.lx))
        all == IF has_fraction
               THEN ReadDigits(text, Advance(text, int_part.lx), Append(int_part.str, "."))
               ELSE int_part
    IN  [st |-> "ok", lx |-> all.lx,
         tok |-> Token("NUMBER", all.str, all.lx.line, start_column)]

\* An escape map that decodes nothing.
Unescape_Raw(c) == c

\* escape_map.get(c, c)
Unescape(c) ==
    CASE c = BACKSLASH -> BACKSLASH
      [] c = "n" -> NEWLINE
      [] c = "t" -> TAB
      [] OTHER -> c

\* The while loop of read_string: [st, lx, str] or a LexerError.
RECURSIVE ReadStringBody(_, _, _, _)
ReadStringBody(text, lx, quote, value) ==
    LET c == CurrentChar(text, lx) IN
    IF c # NoChar /\ c # quote
    THEN IF c = BACKSLASH
         THEN LET lx1 == Advance(text, lx)
                  e == CurrentChar(text, lx1)
              IN  IF e \in {BACKSLASH, quote, "n", "t"}
                  THEN ReadStringBody(text, Advance(text, lx1), quote,
                                      Append(value, Unescape(e)))
                  ELSE LexerError("unknown escape sequence", lx1.line, lx1.column)
         ELSE ReadStringBody(text, Advance(text, lx), quote, Append(value, c))
    ELSE [st |-> "ok", lx |-> lx, str |-> value]

\* Lexer.read_string
ReadString(text, lx, quote) ==
    LET start_column == lx.column
        body == ReadStringBody(text, Advance(text, lx), quote, <<>>)
    IN  IF body.st # "ok" THEN body
        ELSE IF CurrentChar(text, body.lx) # quote
        THEN LexerError("unterminated string", body.lx.line, body.lx.column)
        ELSE LET after == Advance(text, body.lx)
             IN  [st |-> "ok", lx |-> after,
                  tok |-> Token("STRING", body.str, after.line, start_column)]

\* Lexer.KEYWORDS.get(value, TokenType.IDENTIFIER)
KeywordType(value) ==
    CASE value = <<"A", "N", "D">> -> "AND"
      [] value = <<"O", "R">> -> "OR"
      [] value = <<"N", "O", "T">> -> "NOT"
      [] value = <<"I", "N">> -> "IN"
      [] value = <<"p", "l", "a", "n", "e", "t", "s">> -> "PLANETS"
      [] value = <<"a", "s", "p", "e", "c", "t", "s">> -> "ASPECTS"
      [] value = <<"h", "o", "u", "s", "e", "s">> -> "HOUSES"
      [] value = <<"T", "r", "u", "e">> -> "BOOLEAN"
      [] value = <<"F", "a", "l", "s", "e">> -> "BOOLEAN"
      [] OTHER -> "IDENTIFIER"

\* The while loop of read_identifier: [lx, str].
RECURSIVE ReadWord(_, _, _)
ReadWord(text, lx, value) ==
    LET c == CurrentChar(text, lx) IN
    IF c # NoChar /\ (IsAlnum(c) \/ c = "_")
    THEN ReadWord(text, Advance(text, lx), Append(value, c))
    ELSE [lx |-> lx, str |-> value]

\* Lexer.read_identifier
ReadIdentifier(text, lx) ==
    LET start_column == lx.column
        word == ReadWord(text, lx, <<>>)
    IN  [st |-> "ok", lx |-> word.lx,
         tok |-> Token(KeywordType(word.str), word.str, word.lx.line, start_column)]

\* Lexer.TWO_CHAR_OPS and Lexer.SINGLE_CHAR_TOKENS; "" when not in the table.
TwoCharType(two_char) ==
    CASE two_char = <<"=", "=">> -> "EQ"
      [] two_char = <<"!", "=">> -> "NEQ"
      [] two_char = <<"<", "=">> -> "LTE"
      [] two_char = <<">", "=">> -> "GTE"
      [] two_char = <<"&", "&">> -> "AND"
      [] two_char = <<"|", "|">> -> "OR"
      [] OTHER -> ""
SingleCharType(c) ==
    CASE c = "<" -> "LT"
      [] c = ">" -> "GT"
      [] c = "!" -> "NOT"
      [] c = "(" -> "LPAREN"
      [] c = ")" -> "RPAREN"
      [] c = "[" -> "LBRACKET"
      [] c = "]" -> "RBRACKET"
      [] c = "." -> "DOT"
      [] c = "," -> "COMMA"
      [] OTHER -> ""

\* One iteration of the while loop of Lexer.tokenize, entered with
\* current_char not None: [st, lx, emit] with emit the tokens appended (none or
\* one), or a LexerError.
LexStep(text, lx) ==
    LET c == CurrentChar(text, lx)
        two_char == IF Peek(text, lx) = NoChar THEN <<c>> ELSE <<c, Peek(text, lx)>>
        emitted(r) == IF r.st = "ok" THEN [st |-> "ok", lx |-> r.lx, emit |-> <<r.tok>>]
                      ELSE r
    IN  IF IsSpace(c) THEN [st |-> "ok", lx |-> SkipWhitespace(text, lx), emit |-> <<>>]
        ELSE IF c = "#" THEN [st |-> "ok", lx |-> SkipComment(text, lx), emit |-> <<>>]
        ELSE IF IsDigit(c) THEN emitted(ReadNumber(text, lx))
        ELSE IF c \in {DQUOTE, SQUOTE} THEN emitted(ReadString(text, lx, c))
        ELSE IF IsAlpha(c) \/ c = "_" THEN emitted(ReadIdentifier(text, lx))
        ELSE IF TwoCharType(two_char) # ""
        THEN [st |-> "ok", lx |-> Advance(text, Advance(text, lx)),
              emit |-> <<Token(TwoCharType(two_char), two_char, lx.line, lx.column)>>]
        ELSE IF SingleCharType(c) # ""
        THEN [st |-> "ok", lx |-> Advance(text, lx),
              emit |-> <<Token(SingleCharType(c), <<c>>, lx.line, lx.column)>>]
        ELSE LexerError("unknown character", lx.line, lx.column)

RECURSIVE TokenizeFrom(_, _, _)

\* tokenize that on a lexical error returns the tokens read so far.
TokenizeFrom_Truncating(text, lx, tokens) ==
    IF CurrentChar(text, lx) # NoChar
    THEN LET step == LexStep(text, lx) IN
         IF step.st # "ok"
         THEN [st |-> "ok", tokens |-> Append(tokens, Token("EOF", <<>>, lx.line, lx.column))]
         ELSE TokenizeFrom(text, step.lx, tokens \o step.emit)
    ELSE [st |-> "ok", tokens |-> Append(tokens, Token("EOF", <<>>, lx.line, lx.column))]

\* Lexer.tokenize: the loop and the final EOF token.
TokenizeFrom(text, lx, tokens) ==
    IF CurrentChar(text, lx) # NoChar
    THEN LET step == LexStep(text, lx) IN
         IF step.st # "ok" THEN step
         ELSE TokenizeFrom(text, step.lx, tokens \o step.emit)
    ELSE [st |-> "ok", tokens |-> Append(tokens, Token("EOF", <<>>, lx.line, lx.column))]

\* tokenize(formula)
Tokenize(text) == TokenizeFrom(text, LexerInit, <<>>)

(***************************************************************************)
(* AST nodes (parser.ASTNode): one record shape per NodeType               *)
(***************************************************************************)
OpAND == <<"A", "N", "D">>
OpOR == <<"O", "R">>
OpNOT == <<"N", "O", "T">>
OpAmpAmp == <<"&", "&">>
OpBarBar == <<"|", "|">>
OpBang == <<"!">>
OpEQ == <<"=", "=">>
OpNEQ == <<"!", "=">>
OpLT == <<"<">>
OpGT == <<">">>
OpLTE == <<"<", "=">>
OpGTE == <<">", "=">>
OpIN == <<"I", "N">>

BinaryOp(op, l, r) == [type |-> "BINARY_OP", value |-> op, left |-> l, right |-> r]
UnaryOp(op, x) == [type |-> "UNARY_OP", value |-> op, operand |-> x]
Comparison(op, l, r) == [type |-> "COMPARISON", value |-> op, left |-> l, right |-> r]
Property(obj, prop) == [type |-> "PROPERTY", object |-> obj, property |-> prop]
Aggregator(src, prop) == [type |-> "AGGREGATOR", aggregator |-> src, property |-> prop]
Identifier(s) == [type |-> "IDENTIFIER", value |-> s]
NumberNode(v) == [type |-> "NUMBER", value |-> v]
StringNode(s) == [type |-> "STRING", value |-> s]
BooleanNode(b) == [type |-> "BOOLEAN", value |-> b]
ListNode(children) == [type |-> "LIST", children |-> children]

(***************************************************************************)
(* Evaluator (src/src/dsl/evaluator.py)                                    *)
(* An outcome is a returned value, a raised EvaluatorError, or a TypeError *)
(* raised by Python itself.                                                *)
(***************************************************************************)
Ok(v) == [st |-> "ok", val |-> v]
EvaluatorError(msg) == [st |-> "EvaluatorError", msg |-> msg]
TypeError == [st |-> "TypeError"]

AggPlanets == <<"p", "l", "a", "n", "e", "t", "s">>
AggHouses == <<"h", "o", "u", "s", "e", "s">>
AggAspects == <<"a", "s", "p", "e", "c", "t", "s">>

RECURSIVE EvalNode(_, _)
RECURSIVE EvalList(_, _, _, _)

\* Mutant of _eval_binary_op: Python's own short-circuiting and/or on the operands.
EvalBinaryOp_ShortCircuit(node, chart) ==
    LET left == EvalNode(node.left, chart) IN
    IF left.st # "ok" THEN left ELSE
    IF (node.value = OpAND \/ node.value = OpAmpAmp) /\ ~PyTruth(left.val)
    THEN Ok(PyBoolV(FALSE))
    ELSE IF (node.value = OpOR \/ node.value = OpBarBar) /\ PyTruth(left.val)
    THEN Ok(PyBoolV(TRUE))
    ELSE
    LET right == EvalNode(node.right, chart) IN
    IF right.st # "ok" THEN right ELSE
    IF node.value \in {OpAND, OpAmpAmp, OpOR, OpBarBar}
    THEN Ok(PyBoolV(PyTruth(right.val)))
    ELSE EvaluatorError([text |-> "unknown binary operator", op |-> node.value])

\* _eval_binary_op
EvalBinaryOp(node, chart) ==
    LET left == EvalNode(node.left, chart) IN
    IF left.st # "ok" THEN left ELSE
    LET right == EvalNode(node.right, chart) IN
    IF right.st # "ok" THEN right ELSE
    IF node.value = OpAND \/ node.value = OpAmpAmp
    THEN Ok(PyBoolV(PyTruth(left.val) /\ PyTruth(right.val)))
    ELSE IF node.value = OpOR \/ node.value = OpBarBar
    THEN Ok(PyBoolV(PyTruth(left.val) \/ PyTruth(right.val)))
    ELSE EvaluatorError([text |-> "unknown binary operator", op |-> node.value])

\* _eval_unary_op that knows the word NOT only.
EvalUnaryOp_WordOnly(node, chart) ==
    LET operand == EvalNode(node.operand, chart) IN
    IF operand.st # "ok" THEN operand ELSE
    IF node.value = OpNOT
    THEN Ok(PyBoolV(~PyTruth(operand.val)))
    ELSE EvaluatorError([text |-> "unknown unary operator", op |-> node.value])

\* _eval_unary_op
EvalUnaryOp(node, chart) ==
    LET operand == EvalNode(node.operand, chart) IN
    IF operand.st # "ok" THEN operand ELSE
    IF node.value = OpNOT \/ node.value = OpBang
    THEN Ok(PyBoolV(~PyTruth(operand.val)))
    ELSE EvaluatorError([text |-> "unknown unary operator", op |-> node.value])

\* left < right and its three siblings: Python raises TypeError when the
\* operand types define no order.
PyOrder(op, a, b) ==
    LET c == PyCmp(a, b) IN
    IF c = "TypeError" THEN TypeError
    ELSE Ok(PyBoolV(CASE op = OpLT  -> c = "lt"
                      [] op = OpGT  -> c = "gt"
                      [] op = OpLTE -> c \in {"lt", "eq"}
                      [] op = OpGTE -> c \in {"gt", "eq"}))

\* Mutant of _eval_comparison: == and != compare the operands' printed forms,
\* so that a number equals the string of its digits.
EvalComparison_StrCoerce(node, chart) ==
    LET left == EvalNode(node.left, chart) IN
    IF left.st # "ok" THEN left ELSE
    LET right == EvalNode(node.right, chart) IN
    IF right.st # "ok" THEN right ELSE
    LET coerced == \/ PyEq(left.val, right.val)
                   \/ /\ left.val.k = "Number" /\ right.val.k = "String"
                      /\ left.val.den = 1 /\ left.val.num >= 0
                      /\ right.val.s # <<>>
                      /\ \A i \in 1..Len(right.val.s) : IsDecimal(right.val.s[i])
                      /\ DigitsVal(right.val.s) = left.val.num
    IN
    IF node.value = OpEQ THEN Ok(PyBoolV(coerced))
    ELSE IF node.value = OpNEQ THEN Ok(PyBoolV(~coerced))
    ELSE IF node.value \in {OpLT, OpGT, OpLTE, OpGTE}
    THEN PyOrder(node.value, left.val, right.val)
    ELSE IF node.value = OpIN
    THEN IF right.val.k # "List"
         THEN EvaluatorError([text |-> "IN requires a list on the right",
                              got |-> right.val.k])
         ELSE Ok(PyBoolV(PyIn(left.val, right.val.l)))
    ELSE EvaluatorError([text |-> "unknown comparison operator", op |-> node.value])

\* Mutant of _eval_comparison: IN without the isinstance(right, list) check, and
\* membership by identity of representation instead of ==.
EvalComparison_NoListCheck(node, chart) ==
    LET left == EvalNode(node.left, chart) IN
    IF left.st # "ok" THEN left ELSE
    LET right == EvalNode(node.right, chart) IN
    IF right.st # "ok" THEN right ELSE
    IF node.value = OpEQ THEN Ok(PyBoolV(PyEq(left.val, right.val)))
    ELSE IF node.value = OpNEQ THEN Ok(PyBoolV(~PyEq(left.val, right.val)))
    ELSE IF node.value \in {OpLT, OpGT, OpLTE, OpGTE}
    THEN PyOrder(node.value, left.val, right.val)
    ELSE IF node.value = OpIN
    THEN IF right.val.k # "List"
         THEN Ok(PyBoolV(FALSE))
         ELSE Ok(PyBoolV(\E i \in 1..Len(right.val.l) : left.val = right.val.l[i]))
    ELSE EvaluatorError([text |-> "unknown comparison operator", op |-> node.value])

\* Mutant of _eval_comparison: the right operand is evaluated first and an empty
\* list answers False before the left operand is looked at.
EvalComparison_EmptyFirst(node, chart) ==
    LET right == EvalNode(node.right, chart) IN
    IF node.value = OpIN /\ right.st = "ok" /\ right.val = PyList(<<>>)
    THEN Ok(PyBoolV(FALSE)) ELSE
    LET left == EvalNode(node.left, chart) IN
    IF left.st # "ok" THEN left ELSE
    IF right.st # "ok" THEN right ELSE
    IF node.value = OpEQ THEN Ok(PyBoolV(PyEq(left.val, right.val)))
    ELSE IF node.value = OpNEQ THEN Ok(PyBoolV(~PyEq(left.val, right.val)))
    ELSE IF node.value \in {OpLT, OpGT, OpLTE, OpGTE}
    THEN PyOrder(node.value, left.val, right.val)
    ELSE IF node.value = OpIN
    THEN IF right.val.k # "List"
         THEN EvaluatorError([text |-> "IN requires a list on the right",
                              got |-> right.val.k])
         ELSE Ok(PyBoolV(PyIn(left.val, right.val.l)))
    ELSE EvaluatorError([text |-> "unknown comparison operator", op |-> node.value])

\* _eval_comparison
EvalComparison(node, chart) ==
    LET left == EvalNode(node.left, chart) IN
    IF left.st # "ok" THEN left ELSE
    LET right == EvalNode(node.right, chart) IN
    IF right.st # "ok" THEN right ELSE
    IF node.value = OpEQ THEN Ok(PyBoolV(PyEq(left.val, right.val)))
    ELSE IF node.value = OpNEQ THEN Ok(PyBoolV(~PyEq(left.val, right.val)))
    ELSE IF node.value \in {OpLT, OpGT, OpLTE, OpGTE}
    THEN PyOrder(node.value, left.val, right.val)
    ELSE IF node.value = OpIN
    THEN IF right.val.k # "List"
         THEN EvaluatorError([text |-> "IN requires a list on the right",
                              got |-> right.val.k])
         ELSE Ok(PyBoolV(PyIn(left.val, right.val.l)))
    ELSE EvaluatorError([text |-> "unknown comparison operator", op |-> node.value])

\* self.chart_data.get('planets', {})
ChartPlanets(chart) == IF DictHas(chart, "planets") THEN DictGet(chart, "planets") ELSE <<>>

ObjectNotFound(obj_name, chart) ==
    EvaluatorError([text |-> "object not found in chart data",
                    object |-> obj_name,
                    planets |-> DictKeys(ChartPlanets(chart))])

\* The houses branch of _eval_property, entered when "houses" is a chart key.
EvalPropertyInHouses(obj_name, property_name, chart) ==
    LET house_num == PyIntOfStr(obj_name)
        houses == DictGet(chart, "houses")
    IN  IF ~house_num.ok THEN ObjectNotFound(obj_name, chart)   \* except ValueError: pass
        ELSE IF DictHas(houses, house_num.val)
        THEN LET house_data == DictGet(houses, house_num.val) IN
             IF DictHas(house_data, property_name)
             THEN Ok(DictGet(house_data, property_name))
             ELSE EvaluatorError([text |-> "property not found on house",
                                  property |-> property_name,
                                  house |-> house_num.val])
        ELSE ObjectNotFound(obj_name, chart)

\* Mutant of _eval_property: a numeric name is looked up in houses before planets.
EvalProperty_HousesFirst(node, chart) ==
    LET obj == EvalNode(node.object, chart) IN
    IF obj.st # "ok" THEN obj ELSE
    IF obj.val.k # "String"
    THEN EvaluatorError([text |-> "object name must be a string", got |-> obj.val.k])
    ELSE
    LET obj_name == obj.val.s
        property_name == node.property
    IN  IF /\ DictHas(chart, "houses") /\ PyIntOfStr(obj_name).ok
           /\ DictHas(DictGet(chart, "houses"), PyIntOfStr(obj_name).val)
        THEN EvalPropertyInHouses(obj_name, property_name, chart)
        ELSE IF DictHas(chart, "planets") /\ DictHas(DictGet(chart, "planets"), obj_name)
        THEN LET planet_data == DictGet(DictGet(chart, "planets"), obj_name) IN
             IF DictHas(planet_data, property_name)
             THEN Ok(DictGet(planet_data, property_name))
             ELSE EvaluatorError([text |-> "property not found on planet",
                                  property |-> property_name,
                                  planet |-> obj_name,
                                  available |-> DictKeys(planet_data)])
        ELSE ObjectNotFound(obj_name, chart)

\* _eval_property
EvalProperty(node, chart) ==
    LET obj == EvalNode(node.object, chart) IN
    IF obj.st # "ok" THEN obj ELSE
    IF obj.val.k # "String"
    THEN EvaluatorError([text |-> "object name must be a string", got |-> obj.val.k])
    ELSE
    LET obj_name == obj.val.s
        property_name == node.property
    IN  IF DictHas(chart, "planets") /\ DictHas(DictGet(chart, "planets"), obj_name)
        THEN LET planet_data == DictGet(DictGet(chart, "planets"), obj_name) IN
             IF DictHas(planet_data, property_name)
             THEN Ok(DictGet(planet_data, property_name))
             ELSE EvaluatorError([text |-> "property not found on planet",
                                  property |-> property_name,
                                  planet |-> obj_name,
                                  available |-> DictKeys(planet_data)])
        ELSE IF DictHas(chart, "houses")
        THEN EvalPropertyInHouses(obj_name, property_name, chart)
        ELSE ObjectNotFound(obj_name, chart)

\* Mutant of the aggregator loop: an entry without the property is skipped.
RECURSIVE CollectProperty_SkipMissing(_, _, _, _, _)
CollectProperty_SkipMissing(data, errs, property_name, i, acc) ==
    IF i > Len(data) THEN Ok(PyList(acc))
    ELSE CollectProperty_SkipMissing(data, errs, property_name, i + 1,
            IF DictHas(data[i], property_name)
            THEN Append(acc, DictGet(data[i], property_name)) ELSE acc)

\* The loop of _eval_aggregator over a section's entries, each the mapping
\* data[i]; errs[i] is the error raised when entry i lacks the property.
\* acc is the list built so far.
RECURSIVE CollectProperty(_, _, _, _, _)
CollectProperty(data, errs, property_name, i, acc) ==
    IF i > Len(data) THEN Ok(PyList(acc))
    ELSE IF DictHas(data[i], property_name)
    THEN CollectProperty(data, errs, property_name, i + 1,
                         Append(acc, DictGet(data[i], property_name)))
    ELSE EvaluatorError(errs[i])

\* _eval_aggregator
EvalAggregator(node, chart) ==
    LET aggregator == node.aggregator
        property_name == node.property
    IN  IF aggregator = AggPlanets
        THEN IF ~DictHas(chart, "planets")
             THEN EvaluatorError([text |-> "planets data absent from chart"])
             ELSE LET d == DictGet(chart, "planets") IN
                  CollectProperty(DictValues(d),
                                  [i \in 1..Len(d) |->
                                      [text |-> "property not found on planet (aggregator)",
                                       property |-> property_name,
                                       planet |-> d[i].key]],
                                  property_name, 1, <<>>)
        ELSE IF aggregator = AggHouses
        THEN IF ~DictHas(chart, "houses")
             THEN EvaluatorError([text |-> "houses data absent from chart"])
             ELSE LET d == DictGet(chart, "houses") IN
                  CollectProperty(DictValues(d),
                                  [i \in 1..Len(d) |->
                                      [text |-> "property not found on house (aggregator)",
                                       property |-> property_name,
                                       house |-> d[i].key]],
                                  property_name, 1, <<>>)
        ELSE IF aggregator = AggAspects
        THEN IF ~DictHas(chart, "aspects")
             THEN EvaluatorError([text |-> "aspects data absent from chart"])
             ELSE LET l == DictGet(chart, "aspects") IN
                  CollectProperty(l,
                                  [i \in 1..Len(l) |->
                                      [text |-> "property not found on aspect",
                                       property |-> property_name]],
                                  property_name, 1, <<>>)
        ELSE EvaluatorError([text |-> "unknown aggregator", aggregator |-> aggregator])

\* _eval_list: [self._eval_node(child) for child in node.children]
EvalList(children, chart, i, acc) ==
    IF i > Len(children) THEN Ok(PyList(acc))
    ELSE LET r == EvalNode(children[i], chart) IN
         IF r.st # "ok" THEN r
         ELSE EvalList(children, chart, i + 1, Append(acc, r.val))

\* _eval_node, with the four literal evaluators inlined
EvalNode(node, chart) ==
    CASE node.type = "BINARY_OP"  -> EvalBinaryOp(node, chart)
      [] node.type = "UNARY_OP"   -> EvalUnaryOp(node, chart)
      [] node.type = "COMPARISON" -> EvalComparison(node, chart)
      [] node.type = "PROPERTY"   -> EvalProperty(node, chart)
      [] node.type = "AGGREGATOR" -> EvalAggregator(node, chart)
      [] node.type = "IDENTIFIER" -> Ok(PyStr(node.value))
      [] node.type = "NUMBER"     -> Ok(node.value)
      [] node.type = "STRING"     -> Ok(PyStr(node.value))
      [] node.type = "BOOLEAN"    -> Ok(PyBoolV(node.value))
      [] node.type = "LIST"       -> EvalList(node.children, chart, 1, <<>>)
      [] OTHER -> EvaluatorError([text |-> "unknown node type", type |-> node.type])

\* Evaluator(chart_data).evaluate(ast)
Evaluate(node, chart) == EvalNode(node, chart)

(***************************************************************************)
(* Parser (src/src/dsl/parser.py)                                          *)
(* pos is Parser.pos; every _parse_* returns [st, node, pos] with the       *)
(* position it leaves the parser at, or the exception it raises.           *)
(***************************************************************************)
NoToken == [type |-> "<None>"]

ParserError(message, token) == [st |-> "ParserError", message |-> message, token |-> token]
ValueError == [st |-> "ValueError"]
Parsed(node, pos) == [st |-> "ok", node |-> node, pos |-> pos]

\* self.current after pos advances (Parser._advance)
Current(tokens, pos) == IF pos < Len(tokens) THEN tokens[pos + 1] ELSE NoToken

\* Parser._expect: the error it raises, or "ok"
Expect(tokens, pos, token_type) ==
    IF Current(tokens, pos) = NoToken \/ Current(tokens, pos).type # token_type
    THEN ParserError([text |-> "expected token",
                      expected |-> token_type,
                      got |-> IF Current(tokens, pos) = NoToken THEN "EOF"
                              ELSE Current(tokens, pos).type],
                     Current(tokens, pos))
    ELSE [st |-> "ok"]

\* float(s) on the texts that contain a dot: a run of decimal digits on either
\* side, not both empty.  [ok, val]; not ok is ValueError.
PyFloatOfStr(s) ==
    LET dot == IndexOf(s, ".")
        whole == SubSeq(s, 1, dot - 1)
        frac == SubSeq(s, dot + 1, Len(s))
    IN  IF /\ dot > 0
           /\ whole \o frac # <<>>
           /\ \A i \in 1..Len(whole) : IsDecimal(whole[i])
           /\ \A i \in 1..Len(frac) : IsDecimal(frac[i])
        THEN [ok |-> TRUE,
              val |-> PyNum(DigitsVal(whole) * Pow10(Len(frac)) + DigitsVal(frac),
                            Pow10(Len(frac)))]
        ELSE [ok |-> FALSE, val |-> PyInt(0)]

\* int(value_str) if "." not in value_str else float(value_str)
NumberOfText(value_str) ==
    IF IndexOf(value_str, ".") = 0
    THEN IF PyIntOfStr(value_str).ok
         THEN [ok |-> TRUE, val |-> PyInt(PyIntOfStr(value_str).val)]
         ELSE [ok |-> FALSE, val |-> PyInt(0)]
    ELSE PyFloatOfStr(value_str)

TrueText == <<"T", "r", "u", "e">>
ComparisonTokenTypes == {"EQ", "NEQ", "LT", "GT", "LTE", "GTE", "IN"}

RECURSIVE ParseExpression(_, _)
RECURSIVE ParseExpressionLoop(_, _, _)
RECURSIVE ParseTerm(_, _)
RECURSIVE ParseTermLoop(_, _, _)
RECURSIVE ParseFactor(_, _)
RECURSIVE ParseComparison(_, _)
RECURSIVE ParsePrimary(_, _)

\* Sequencing of two steps of a method: an exception raised by the first step
\* leaves the method, otherwise the rest runs on what the first step returned.
AndThen(step, Rest(_)) == IF step.st # "ok" THEN step ELSE Rest(step)

\* value = int(value_str) if "." not in value_str else float(value_str);
\* self._advance(); return ASTNode(type=NodeType.NUMBER, value=value)
NumberLiteral(number, pos) ==
    IF number.ok THEN Parsed(NumberNode(number.val), pos) ELSE ValueError

\* Parser._parse_list_element
ParseListElement(tokens, pos) ==
    LET current == Current(tokens, pos) IN
    IF current = NoToken THEN ParserError([text |-> "unexpected end of list"], NoToken)
    ELSE IF current.type = "NUMBER"
    THEN NumberLiteral(NumberOfText(current.value), pos + 1)
    ELSE IF current.type = "STRING" THEN Parsed(StringNode(current.value), pos + 1)
    ELSE IF current.type = "BOOLEAN"
    THEN Parsed(BooleanNode(current.value = TrueText), pos + 1)
    ELSE IF current.type = "IDENTIFIER" THEN Parsed(Identifier(current.value), pos + 1)
    ELSE ParserError([text |-> "invalid list element", value |-> current.value], current)

\* The while loop of _parse_list over ', element'.
RECURSIVE ParseListRest(_, _, _)
ParseListRest(tokens, pos, children) ==
    IF Current(tokens, pos) # NoToken /\ Current(tokens, pos).type = "COMMA"
    THEN AndThen(ParseListElement(tokens, pos + 1),
                 LAMBDA e : ParseListRest(tokens, e.pos, Append(children, e.node)))
    ELSE [st |-> "ok", children |-> children, pos |-> pos]

\* Parser._parse_list
ParseList(tokens, pos) ==
    AndThen(Expect(tokens, pos, "LBRACKET"), LAMBDA opened :
        IF Current(tokens, pos + 1) # NoToken /\ Current(tokens, pos + 1).type = "RBRACKET"
        THEN Parsed(ListNode(<<>>), pos + 2)
        ELSE AndThen(ParseListElement(tokens, pos + 1), LAMBDA first :
             AndThen(ParseListRest(tokens, first.pos, <<first.node>>), LAMBDA rest :
             AndThen(Expect(tokens, rest.pos, "RBRACKET"), LAMBDA closed :
                 Parsed(ListNode(rest.children), rest.pos + 1)))))

\* Parser._parse_aggregator
ParseAggregator(tokens, pos) ==
    AndThen(Expect(tokens, pos + 1, "DOT"), LAMBDA dot :
    AndThen(Expect(tokens, pos + 2, "IDENTIFIER"), LAMBDA name :
        Parsed(Aggregator(Current(tokens, pos).value, Current(tokens, pos + 2).value),
               pos + 3)))

\* _parse_identifier_or_property that also consumes the token after a plain
\* identifier.
ParseIdentifierOrProperty_Overrun(tokens, pos) ==
    IF Current(tokens, pos + 1) # NoToken /\ Current(tokens, pos + 1).type = "DOT"
    THEN AndThen(Expect(tokens, pos + 2, "IDENTIFIER"), LAMBDA name :
             Parsed(Property(Identifier(Current(tokens, pos).value),
                             Current(tokens, pos + 2).value),
                    pos + 3))
    ELSE Parsed(Identifier(Current(tokens, pos).value), pos + 2)

\* Parser._parse_identifier_or_property
ParseIdentifierOrProperty(tokens, pos) ==
    IF Current(tokens, pos + 1) # NoToken /\ Current(tokens, pos + 1).type = "DOT"
    THEN AndThen(Expect(tokens, pos + 2, "IDENTIFIER"), LAMBDA name :
             Parsed(Property(Identifier(Current(tokens, pos).value),
                             Current(tokens, pos + 2).value),
                    pos + 3))
    ELSE Parsed(Identifier(Current(tokens, pos).value), pos + 1)

\* _parse_primary that does not require the closing parenthesis.
ParsePrimary_NoClose(tokens, pos) ==
    LET current == Current(tokens, pos) IN
    IF current = NoToken THEN ParserError([text |-> "unexpected end of formula"], NoToken)
    ELSE IF current.type = "LPAREN"
    THEN AndThen(ParseExpression(tokens, pos + 1), LAMBDA expr :
             IF Expect(tokens, expr.pos, "RPAREN").st = "ok"
             THEN Parsed(expr.node, expr.pos + 1)
             ELSE Parsed(expr.node, expr.pos))
    ELSE IF current.type = "NUMBER"
    THEN NumberLiteral(NumberOfText(current.value), pos + 1)
    ELSE IF current.type = "STRING" THEN Parsed(StringNode(current.value), pos + 1)
    ELSE IF current.type = "BOOLEAN"
    THEN Parsed(BooleanNode(current.value = TrueText), pos + 1)
    ELSE IF current.type = "LBRACKET" THEN ParseList(tokens, pos)
    ELSE IF current.type \in {"PLANETS", "ASPECTS", "HOUSES"}
    THEN ParseAggregator(tokens, pos)
    ELSE IF current.type = "IDENTIFIER" THEN ParseIdentifierOrProperty(tokens, pos)
    ELSE ParserError([text |-> "unexpected token", value |-> current.value], current)

\* Parser._parse_primary
ParsePrimary(tokens, pos) ==
    LET current == Current(tokens, pos) IN
    IF current = NoToken THEN ParserError([text |-> "unexpected end of formula"], NoToken)
    ELSE IF current.type = "LPAREN"
    THEN AndThen(ParseExpression(tokens, pos + 1), LAMBDA expr :
         AndThen(Expect(tokens, expr.pos, "RPAREN"), LAMBDA closed :
             Parsed(expr.node, expr.pos + 1)))
    ELSE IF current.type = "NUMBER"
    THEN NumberLiteral(NumberOfText(current.value), pos + 1)
    ELSE IF current.type = "STRING" THEN Parsed(StringNode(current.value), pos + 1)
    ELSE IF current.type = "BOOLEAN"
    THEN Parsed(BooleanNode(current.value = TrueText), pos + 1)
    ELSE IF current.type = "LBRACKET" THEN ParseList(tokens, pos)
    ELSE IF current.type \in {"PLANETS", "ASPECTS", "HOUSES"}
    THEN ParseAggregator(tokens, pos)
    ELSE IF current.type = "IDENTIFIER" THEN ParseIdentifierOrProperty(tokens, pos)
    ELSE ParserError([text |-> "unexpected token", value |-> current.value], current)

\* _parse_comparison taking a whole comparison as its right operand.
ParseComparison_Chained(tokens, pos) ==
    AndThen(ParsePrimary(tokens, pos), LAMBDA left :
        IF /\ Current(tokens, left.pos) # NoToken
           /\ Current(tokens, left.pos).type \in ComparisonTokenTypes
        THEN AndThen(ParseComparison(tokens, left.pos + 1), LAMBDA right :
                 Parsed(Comparison(Current(tokens, left.pos).value, left.node, right.node),
                        right.pos))
        ELSE left)

\* Parser._parse_comparison
ParseComparison(tokens, pos) ==
    AndThen(ParsePrimary(tokens, pos), LAMBDA left :
        IF /\ Current(tokens, left.pos) # NoToken
           /\ Current(tokens, left.pos).type \in ComparisonTokenTypes
        THEN AndThen(ParsePrimary(tokens, left.pos + 1), LAMBDA right :
                 Parsed(Comparison(Current(tokens, left.pos).value, left.node, right.node),
                        right.pos))
        ELSE left)

\* _parse_factor with NOT applied to a whole term instead of a factor.
ParseFactor_NotOverTerm(tokens, pos) ==
    IF Current(tokens, pos) # NoToken /\ Current(tokens, pos).type = "NOT"
    THEN AndThen(ParseTerm(tokens, pos + 1), LAMBDA operand :
             Parsed(UnaryOp(Current(tokens, pos).value, operand.node), operand.pos))
    ELSE ParseComparison(tokens, pos)

\* Parser._parse_factor
ParseFactor(tokens, pos) ==
    IF Current(tokens, pos) # NoToken /\ Current(tokens, pos).type = "NOT"
    THEN AndThen(ParseFactor(tokens, pos + 1), LAMBDA operand :
             Parsed(UnaryOp(Current(tokens, pos).value, operand.node), operand.pos))
    ELSE ParseComparison(tokens, pos)

\* The while loop of _parse_term over 'AND factor'.
ParseTermLoop(tokens, left, pos) ==
    IF Current(tokens, pos) # NoToken /\ Current(tokens, pos).type = "AND"
    THEN AndThen(ParseFactor(tokens, pos + 1), LAMBDA right :
             ParseTermLoop(tokens,
                           BinaryOp(Current(tokens, pos).value, left, right.node),
                           right.pos))
    ELSE Parsed(left, pos)

\* Parser._parse_term
ParseTerm(tokens, pos) ==
    AndThen(ParseFactor(tokens, pos), LAMBDA left :
        ParseTermLoop(tokens, left.node, left.pos))

\* The while loop of _parse_expression over 'OR term'.
ParseExpressionLoop(tokens, left, pos) ==
    IF Current(tokens, pos) # NoToken /\ Current(tokens, pos).type = "OR"
    THEN AndThen(ParseTerm(tokens, pos + 1), LAMBDA right :
             ParseExpressionLoop(tokens,
                                 BinaryOp(Current(tokens, pos).value, left, right.node),
                                 right.pos))
    ELSE Parsed(left, pos)

\* Parser._parse_expression
ParseExpression(tokens, pos) ==
    AndThen(ParseTerm(tokens, pos), LAMBDA left :
        ParseExpressionLoop(tokens, left.node, left.pos))

\* parse() without the test for a stream of EOF alone.
ParserParse_NoEmptyTest(tokens) ==
    IF tokens = <<>> THEN ParserError([text |-> "empty formula"], NoToken)
    ELSE AndThen(ParseExpression(tokens, 0), LAMBDA parsed :
             IF /\ Current(tokens, parsed.pos) # NoToken
                /\ Current(tokens, parsed.pos).type # "EOF"
             THEN ParserError([text |-> "unexpected token",
                               value |-> Current(tokens, parsed.pos).value],
                              Current(tokens, parsed.pos))
             ELSE parsed)

\* Parser(tokens).parse()
ParserParse(tokens) ==
    IF tokens = <<>> THEN ParserError([text |-> "empty formula"], NoToken)
    ELSE IF Len(tokens) = 1 /\ tokens[1].type = "EOF"
    THEN ParserError([text |-> "empty formula"], NoToken)
    ELSE AndThen(ParseExpression(tokens, 0), LAMBDA parsed :
             IF /\ Current(tokens, parsed.pos) # NoToken
                /\ Current(tokens, parsed.pos).type # "EOF"
             THEN ParserError([text |-> "unexpected token",
                               value |-> Current(tokens, parsed.pos).value],
                              Current(tokens, parsed.pos))
             ELSE parsed)

\* parse(formula): tokenize, then Parser(tokens).parse()
ParseFormula(formula) ==
    AndThen(Tokenize(formula), LAMBDA lexed : ParserParse(lexed.tokens))

\* evaluate(formula, chart_data): parse, then Evaluator(chart_data).evaluate(ast)
EvaluateFormula(formula, chart) ==
    AndThen(ParseFormula(formula), LAMBDA parsed : Evaluate(parsed.node, chart))

(***************************************************************************)
(* Bounded inputs of the evaluator                                         *)
(***************************************************************************)
MaxPlanets == 2    \* planets in a chart
MaxListLen == 2    \* children of a list literal

Sun == <<"S", "u", "n">>
Moon == <<"M", "o", "o", "n">>
Pluto == <<"P", "l", "u", "t", "o">>      \* in no chart of the model
One == <<"1">>
Seven == <<"7">>
Sign == <<"S", "i", "g", "n">>
House == <<"H", "o", "u", "s", "e">>
Retrograde == <<"R", "e", "t", "r", "o", "g", "r", "a", "d", "e">>
Ruler == <<"R", "u", "l", "e", "r">>
Type == <<"T", "y", "p", "e">>
Aries == <<"A", "r", "i", "e", "s">>
Leo == <<"L", "e", "o">>
Trine == <<"T", "r", "i", "n", "e">>
Stars == <<"s", "t", "a", "r", "s">>
OpXOR == <<"X", "O", "R">>                \* no operator of the language

\* All sequences over S of length at most n.
RECURSIVE SeqsUpTo(_, _)
SeqsUpTo(S, n) ==
    IF n = 0 THEN {<<>>}
    ELSE LET shorter == SeqsUpTo(S, n - 1)
         IN  shorter \cup {Append(q, x) : q \in {r \in shorter : Len(r) = n - 1}, x \in S}

PlanetNames == {Sun, Moon, One}
PlanetDatas ==
    { <<KV(Sign, PyStr(Aries)), KV(House, PyInt(1)), KV(Retrograde, PyBoolV(TRUE))>>,
      <<KV(House, PyInt(10)), KV(Sign, PyStr(Leo))>> }

DistinctKeys(d) == \A i, j \in 1..Len(d) : d[i].key = d[j].key => i = j

PlanetsSections ==
    {d \in SeqsUpTo({KV(n, pd) : n \in PlanetNames, pd \in PlanetDatas}, MaxPlanets) :
        DistinctKeys(d)}

HousesSections ==
    { <<>>,
      <<KV(1, <<KV(Sign, PyStr(Aries)), KV(Ruler, PyStr(<<"M", "a", "r", "s">>))>>)>>,
      <<KV(1, <<KV(Sign, PyStr(Leo)), KV(Ruler, PyStr(Sun))>>),
        KV(7, <<KV(Sign, PyStr(Aries))>>)>> }

AspectsSections ==
    { <<>>,
      << <<KV(Type, PyStr(Trine)), KV(<<"O", "r", "b">>, PyNum(15, 10))>> >>,
      << <<KV(Type, PyStr(Trine))>>, <<KV(<<"O", "r", "b">>, PyInt(0))>> >> }

\* A chart is a dict with the optional keys planets, houses, aspects; each
\* argument is the section's entry, or the empty sequence when it is absent.
ChartOf(ps, hs, as) == ps \o hs \o as
Absent == <<>>
Section(key, S) == {<<KV(key, x)>> : x \in S}

Charts ==
    {ChartOf(ps, hs, as) : ps \in Section("planets", PlanetsSections),
                           hs \in Section("houses", HousesSections) \cup {Absent},
                           as \in Section("aspects", AspectsSections) \cup {Absent}}
    \cup {ChartOf(Absent, hs, Absent) : hs \in Section("houses", HousesSections) \cup {Absent}}

\* The charts the expression inputs are evaluated on.
SampleCharts ==
    { <<KV("planets",
           <<KV(Sun, <<KV(Sign, PyStr(Aries)), KV(House, PyInt(1)),
                       KV(Retrograde, PyBoolV(TRUE))>>),
             KV(Moon, <<KV(House, PyInt(10)), KV(Sign, PyStr(Leo))>>)>>),
        KV("houses", <<KV(1, <<KV(Sign, PyStr(Aries))>>)>>)>>,
      <<KV("planets", <<>>)>> }

ObjectNodes ==
    {Identifier(n) : n \in {Sun, Moon, Pluto, One, Seven, <<"_", "1">>}}
    \cup {StringNode(<<" ", "7">>), StringNode(<<"1", "_", "0">>), NumberNode(PyInt(1))}
PropertyNodes ==
    {Property(o, p) : o \in ObjectNodes, p \in {Sign, House, Retrograde, Ruler}}
AggregatorNodes ==
    {Aggregator(a, p) : a \in {AggPlanets, AggHouses, AggAspects, Stars},
                        p \in {Sign, House, Ruler, Type}}

ListElements ==
    {Identifier(Aries), NumberNode(PyInt(1)), BooleanNode(TRUE), StringNode(One)}
ListNodes == {ListNode(c) : c \in SeqsUpTo(ListElements, MaxListLen)}

LeftOperands ==
    { Identifier(Aries), Identifier(Leo), NumberNode(PyInt(1)), NumberNode(PyInt(0)),
      NumberNode(PyNum(15, 10)), StringNode(One), StringNode(<<>>),
      BooleanNode(TRUE), BooleanNode(FALSE),
      Property(Identifier(Sun), Sign), Property(Identifier(Sun), House),
      Property(Identifier(Sun), Retrograde), Property(Identifier(Pluto), Sign),
      Aggregator(AggPlanets, Sign), ListNode(<<>>), ListNode(<<NumberNode(PyInt(1))>>) }
RightOperands ==
    ListNodes \cup
    { Identifier(Aries), NumberNode(PyInt(1)), NumberNode(PyNum(10, 10)),
      NumberNode(PyInt(10)), StringNode(One), BooleanNode(TRUE),
      Property(Identifier(Moon), House), Property(Identifier(Pluto), House),
      Aggregator(AggPlanets, Sign), Aggregator(AggPlanets, House),
      Aggregator(AggPlanets, Retrograde), Aggregator(AggAspects, Type) }
ComparisonOps == {OpEQ, OpNEQ, OpLT, OpGT, OpLTE, OpGTE, OpIN, <<"=">>}
ComparisonNodes ==
    {Comparison(op, l, r) : op \in ComparisonOps, l \in LeftOperands, r \in RightOperands}

LogicOperands ==
    { BooleanNode(TRUE), BooleanNode(FALSE), NumberNode(PyInt(0)), Identifier(Aries),
      ListNode(<<>>),
      Comparison(OpEQ, Property(Identifier(Sun), Sign), Identifier(Aries)),
      Comparison(OpEQ, Property(Identifier(Pluto), Sign), Identifier(Aries)),
      Comparison(OpIN, Identifier(Aries), Identifier(Aries)),
      Comparison(OpLT, Property(Identifier(Sun), Sign), NumberNode(PyInt(5))),
      UnaryOp(OpNOT, BooleanNode(TRUE)),
      BinaryOp(OpOR, BooleanNode(FALSE), Property(Identifier(Moon), Retrograde)) }
LogicNodes ==
    {BinaryOp(op, l, r) : op \in {OpAND, OpOR, OpAmpAmp, OpBarBar, OpXOR},
                          l \in LogicOperands, r \in LogicOperands}
    \cup {UnaryOp(op, x) : op \in {OpNOT, OpBang, OpXOR}, x \in LogicOperands}

EvalInputs ==
    (Charts \X (PropertyNodes \cup AggregatorNodes))
    \cup (SampleCharts \X (ComparisonNodes \cup LogicNodes \cup LeftOperands \cup RightOperands))

(***************************************************************************)
(* The evaluator's specification: evaluate(ast) on chart_data              *)
(***************************************************************************)
EvalInit ==
    /\ \E in \in EvalInputs : chart_data = in[1] /\ ast = in[2]
    /\ pc = "evaluate"
    /\ result = None
    /\ check = <<>>
    /\ token_list = <<>>
    /\ stdout = <<>>
    /\ stderr = <<>>
    /\ exit_code = None
    /\ NoCache
    /\ NoScan
    /\ NoWalk

\* result = Evaluator(chart_data).evaluate(ast); neither argument is written.
EvaluatorEvaluate ==
    /\ pc = "evaluate"
    /\ result' = Evaluate(ast, chart_data)
    /\ pc' = "evaluated"
    /\ UNCHANGED <<chart_data, ast, check, token_list, stdout, stderr, exit_code>>
    /\ UNCHANGED <<cache_vars, scan_vars, walk_vars>>

EvalNext == EvaluatorEvaluate

SpecEval == EvalInit /\ [][EvalNext]_vars

(***************************************************************************)
(* Claims about the evaluator (checked under SpecEval)                     *)
(***************************************************************************)
Evaluated == pc = "evaluated"
LeftOutcome == EvalNode(ast.left, chart_data)
RightOutcome == EvalNode(ast.right, chart_data)
LogicalOps == {OpAND, OpOR, OpAmpAmp, OpBarBar}
IsLogical == ast.type = "BINARY_OP" /\ ast.value \in LogicalOps
IsCmp(op) == ast.type = "COMPARISON" /\ ast.value = op
BothOperandsOk == LeftOutcome.st = "ok" /\ RightOutcome.st = "ok"

\* C1: AND/OR evaluate left and then right unconditionally: when the left
\* operand yields a value and the right operand raises EvaluatorError, the whole
\* AND/OR raises that very error, whatever the left value is.
C1_NoShortCircuit ==
    (Evaluated /\ IsLogical /\ LeftOutcome.st = "ok"
               /\ RightOutcome.st = "EvaluatorError")
        => result = RightOutcome

\* C1 witness: an AND whose left operand is already False (and an OR whose left is
\* already True would do) and whose right operand raised.
C1_Witness ==
    /\ Evaluated /\ ast.type = "BINARY_OP" /\ ast.value = OpAND
    /\ LeftOutcome.st = "ok" /\ ~PyTruth(LeftOutcome.val)
    /\ RightOutcome.st = "EvaluatorError"
    /\ result.st = "EvaluatorError"

\* The name a Property node's object evaluates to.
ObjName == EvalNode(ast.object, chart_data).val.s
IsNamedProperty ==
    /\ ast.type = "PROPERTY"
    /\ EvalNode(ast.object, chart_data).st = "ok"
    /\ EvalNode(ast.object, chart_data).val.k = "String"
InPlanets == DictHas(chart_data, "planets") /\ DictHas(DictGet(chart_data, "planets"), ObjName)
PlanetData == DictGet(DictGet(chart_data, "planets"), ObjName)
InHouses ==
    /\ DictHas(chart_data, "houses")
    /\ PyIntOfStr(ObjName).ok
    /\ DictHas(DictGet(chart_data, "houses"), PyIntOfStr(ObjName).val)
HouseData == DictGet(DictGet(chart_data, "houses"), PyIntOfStr(ObjName).val)

\* C2: Property resolution order: (1) a name that is a key of chart.planets
\* yields planets[name][property], and a missing property raises EvaluatorError
\* listing that planet's property names, houses not consulted; (2) otherwise a
\* name that parses as an integer key of chart.houses yields
\* houses[n][property] (a property the house lacks raises EvaluatorError);
\* (3) otherwise EvaluatorError 'object not found' naming the object and
\* listing the planet names.
C2_ResolutionOrder ==
    (Evaluated /\ IsNamedProperty) =>
        IF InPlanets
        THEN IF DictHas(PlanetData, ast.property)
             THEN result = Ok(DictGet(PlanetData, ast.property))
             ELSE /\ result.st = "EvaluatorError"
                  /\ result.msg.text = "property not found on planet"
                  /\ result.msg.planet = ObjName
                  /\ result.msg.available = DictKeys(PlanetData)
        ELSE IF InHouses
        THEN IF DictHas(HouseData, ast.property)
             THEN result = Ok(DictGet(HouseData, ast.property))
             ELSE /\ result.st = "EvaluatorError"
                  /\ result.msg.text = "property not found on house"
        ELSE /\ result.st = "EvaluatorError"
             /\ result.msg.text = "object not found in chart data"
             /\ result.msg.object = ObjName
             /\ result.msg.planets = DictKeys(ChartPlanets(chart_data))

\* C2 witness: the name "1" is both a planet and a house number, the planet lacks
\* the property and the house has it: the planet's error is raised.
C2_Witness ==
    /\ Evaluated /\ IsNamedProperty /\ InPlanets /\ InHouses
    /\ ~DictHas(PlanetData, ast.property) /\ DictHas(HouseData, ast.property)
    /\ result.st = "EvaluatorError"

\* C2, second witness state: resolution through houses.
C2_WitnessHouse ==
    /\ Evaluated /\ IsNamedProperty /\ ~InPlanets /\ InHouses
    /\ result.st = "ok"

SameKindEqual(a, b) == a.k = b.k /\ a = b

\* C3 as stated: == is True only for operands of the same kind with equal
\* values, and != is its negation.
C3_NoCrossKindEquality ==
    (Evaluated /\ (IsCmp(OpEQ) \/ IsCmp(OpNEQ)) /\ BothOperandsOk) =>
        /\ IsCmp(OpEQ) => (result = Ok(PyBoolV(TRUE))
                             => SameKindEqual(LeftOutcome.val, RightOutcome.val))
        /\ IsCmp(OpNEQ) => (result = Ok(PyBoolV(FALSE))
                             => SameKindEqual(LeftOutcome.val, RightOutcome.val))

Scalar(v) == v.k \in {"Bool", "Number", "String"}
BoolAsNumber(v) == IF v.k = "Bool" THEN PyInt(IF v.b THEN 1 ELSE 0) ELSE v

\* C3 amended: == on scalars is True exactly when the operands are the same value
\* once a Bool is read as the Number 1 or 0 (bool is an int in the source
\* language); a String never equals a Bool or a Number, a List never equals a
\* scalar, equal lists have equal length, and != is the exact negation of ==.
C3_EqualityUpToBoolAsNumber ==
    (Evaluated /\ (IsCmp(OpEQ) \/ IsCmp(OpNEQ)) /\ BothOperandsOk) =>
        LET a == LeftOutcome.val
            b == RightOutcome.val
            eq == IF IsCmp(OpEQ) THEN result.val.b ELSE ~result.val.b
        IN  /\ result.st = "ok" /\ result.val.k = "Bool"
            /\ (Scalar(a) /\ Scalar(b)) => (eq <=> BoolAsNumber(a) = BoolAsNumber(b))
            /\ (a.k = "List") # (b.k = "List") => ~eq
            /\ (a.k = "List" /\ b.k = "List") =>
                  /\ eq => Len(a.l) = Len(b.l)
                  /\ a = b => eq
            /\ result = IF IsCmp(OpEQ)
                        THEN Ok(PyBoolV(~EvalNode(Comparison(OpNEQ, ast.left, ast.right),
                                                  chart_data).val.b))
                        ELSE Ok(PyBoolV(~EvalNode(Comparison(OpEQ, ast.left, ast.right),
                                                  chart_data).val.b))

\* C3 witness: a Number compared with the String of its digits is not equal, and
\* a Bool compared with the Number 1 is.
C3_Witness ==
    /\ Evaluated /\ IsCmp(OpEQ) /\ BothOperandsOk
    /\ LeftOutcome.val = PyInt(1) /\ RightOutcome.val = PyStr(One)
    /\ result = Ok(PyBoolV(FALSE))

\* C4: IN raises EvaluatorError whenever the right operand's value is not a list;
\* otherwise it is True exactly when some element equals the left value under the
\* equality of ==.
C4_InRequiresList ==
    (Evaluated /\ IsCmp(OpIN) /\ BothOperandsOk) =>
        IF RightOutcome.val.k # "List"
        THEN result.st = "EvaluatorError"
             /\ result.msg.text = "IN requires a list on the right"
        ELSE IF ast.right.type = "LIST"
        THEN result = Ok(PyBoolV(
                \E i \in 1..Len(ast.right.children) :
                    EvalNode(Comparison(OpEQ, ast.left, ast.right.children[i]),
                             chart_data) = Ok(PyBoolV(TRUE))))
        ELSE result = Ok(PyBoolV(\E i \in 1..Len(RightOutcome.val.l) :
                                    PyEq(LeftOutcome.val, RightOutcome.val.l[i])))

\* C4 witness: 'V IN planets.P' that is True because some planet has P equal to V.
C4_Witness ==
    /\ Evaluated /\ IsCmp(OpIN) /\ BothOperandsOk
    /\ ast.right.type = "AGGREGATOR" /\ Len(RightOutcome.val.l) >= 2
    /\ result = Ok(PyBoolV(TRUE))

\* C4, second witness state: the right operand is not a list.
C4_WitnessNotList ==
    /\ Evaluated /\ IsCmp(OpIN) /\ BothOperandsOk
    /\ RightOutcome.val.k = "String" /\ result.st = "EvaluatorError"

IsInEmptyList == IsCmp(OpIN) /\ ast.right = ListNode(<<>>)

\* C5 as stated: 'X IN []' returns False for any left operand X and any chart.
C5_EmptyListAlwaysFalse ==
    (Evaluated /\ IsInEmptyList) => result = Ok(PyBoolV(FALSE))

\* C5 amended: 'X IN []' returns False whenever X evaluates to a value, on any
\* chart; when evaluating X raises, that error is the outcome.
C5_EmptyListFalseOrLeftError ==
    (Evaluated /\ IsInEmptyList) =>
        IF LeftOutcome.st = "ok" THEN result = Ok(PyBoolV(FALSE))
        ELSE result = LeftOutcome

\* C5 witness: 'X IN []' whose X raised.
C5_Witness ==
    /\ Evaluated /\ IsInEmptyList
    /\ LeftOutcome.st = "EvaluatorError" /\ result.st = "EvaluatorError"

\* C5, second witness state: 'X IN []' answered False.
C5_WitnessFalse ==
    Evaluated /\ IsInEmptyList /\ LeftOutcome.st = "ok" /\ result = Ok(PyBoolV(FALSE))

\* The entries of the chart section an aggregator names, in insertion order.
SectionKey ==
    CASE ast.aggregator = AggPlanets -> "planets"
      [] ast.aggregator = AggHouses  -> "houses"
      [] ast.aggregator = AggAspects -> "aspects"
SectionEntries ==
    IF SectionKey = "aspects" THEN DictGet(chart_data, "aspects")
    ELSE DictValues(DictGet(chart_data, SectionKey))
IsKnownAggregator ==
    ast.type = "AGGREGATOR" /\ ast.aggregator \in {AggPlanets, AggHouses, AggAspects}

\* C6: Aggregator(source, property) returns the list of entry[property] over all
\* entries of the section in insertion order (as many values as entries); if the
\* section is absent or any entry lacks the property, EvaluatorError and no list.
C6_AggregatorAllOrError ==
    (Evaluated /\ IsKnownAggregator) =>
        IF /\ DictHas(chart_data, SectionKey)
           /\ \A i \in 1..Len(SectionEntries) : DictHas(SectionEntries[i], ast.property)
        THEN /\ result.st = "ok" /\ result.val.k = "List"
             /\ Len(result.val.l) = Len(SectionEntries)
             /\ \A i \in 1..Len(SectionEntries) :
                   result.val.l[i] = DictGet(SectionEntries[i], ast.property)
        ELSE result.st = "EvaluatorError"

\* C6 witness: a section of two entries, the first with the property and the
\* second without: the error, not the one-element list.
C6_Witness ==
    /\ Evaluated /\ IsKnownAggregator /\ DictHas(chart_data, SectionKey)
    /\ Len(SectionEntries) = 2
    /\ DictHas(SectionEntries[1], ast.property)
    /\ ~DictHas(SectionEntries[2], ast.property)
    /\ result.st = "EvaluatorError"

\* C6, second witness state: a two-entry list in insertion order.
C6_WitnessList ==
    /\ Evaluated /\ IsKnownAggregator /\ result.st = "ok"
    /\ Len(result.val.l) = 2 /\ result.val.l[1] # result.val.l[2]

\* The shapes Parser.parse builds: operators from the token table, a Property's
\* object an Identifier, list children literals or identifiers.
RECURSIVE FromParse(_)
FromParse(node) ==
    CASE node.type = "BINARY_OP" ->
            /\ node.value \in LogicalOps
            /\ FromParse(node.left) /\ FromParse(node.right)
      [] node.type = "UNARY_OP" -> node.value \in {OpNOT, OpBang} /\ FromParse(node.operand)
      [] node.type = "COMPARISON" ->
            /\ node.value \in {OpEQ, OpNEQ, OpLT, OpGT, OpLTE, OpGTE, OpIN}
            /\ FromParse(node.left) /\ FromParse(node.right)
      [] node.type = "PROPERTY" -> node.object.type = "IDENTIFIER"
      [] node.type = "AGGREGATOR" -> node.aggregator \in {AggPlanets, AggHouses, AggAspects}
      [] node.type = "LIST" ->
            \A i \in 1..Len(node.children) :
                node.children[i].type \in {"NUMBER", "STRING", "BOOLEAN", "IDENTIFIER"}
      [] OTHER -> TRUE

\* C7 as stated: for an AST that parse produces, evaluate returns a value or fails
\* with EvaluatorError, no other failure; an ordering comparison of operands
\* without a defined order fails with EvaluatorError.
C7_OnlyEvaluatorErrorEscapes ==
    (Evaluated /\ FromParse(ast)) => result.st \in {"ok", "EvaluatorError"}

\* An ordering comparison that parse can produce has been evaluated and
\* Python's TypeError left evaluate.
C7_Witness ==
    /\ Evaluated
    /\ FromParse(ast)
    /\ ast.type = "COMPARISON"
    /\ ast.value \in {OpLT, OpGT, OpLTE, OpGTE}
    /\ BothOperandsOk
    /\ result = TypeError

(***************************************************************************)
(* Grammar of the formula language (parser.py, module docstring and the    *)
(* docstrings of the list, aggregator and identifier productions), as      *)
(* derivability of a sequence of token types.                              *)
(***************************************************************************)
RECURSIVE IsExpression(_)
RECURSIVE IsTerm(_)
RECURSIVE IsFactor(_)
RECURSIVE IsElements(_)

\* element := NUMBER | STRING | BOOLEAN | IDENTIFIER
IsElement(ts) == Len(ts) = 1 /\ ts[1] \in {"NUMBER", "STRING", "BOOLEAN", "IDENTIFIER"}

\* element (',' element)*
IsElements(ts) ==
    \/ IsElement(ts)
    \/ /\ Len(ts) >= 3
       /\ IsElement(<<ts[1]>>)
       /\ ts[2] = "COMMA"
       /\ IsElements(SubSeq(ts, 3, Len(ts)))

\* list := '[' (element (',' element)*)? ']'
IsList(ts) ==
    /\ Len(ts) >= 2
    /\ ts[1] = "LBRACKET"
    /\ ts[Len(ts)] = "RBRACKET"
    /\ (Len(ts) = 2 \/ IsElements(SubSeq(ts, 2, Len(ts) - 1)))

\* aggregator := ('planets' | 'aspects' | 'houses') '.' IDENTIFIER
IsAggregator(ts) ==
    /\ Len(ts) = 3
    /\ ts[1] \in {"PLANETS", "ASPECTS", "HOUSES"}
    /\ ts[2] = "DOT"
    /\ ts[3] = "IDENTIFIER"

\* identifierOrProperty := IDENTIFIER ('.' IDENTIFIER)?
IsIdentifierOrProperty(ts) ==
    ts = <<"IDENTIFIER">> \/ ts = <<"IDENTIFIER", "DOT", "IDENTIFIER">>

\* primary := identifier | number | string | boolean | list | property
\*          | aggregator | '(' expression ')'
IsPrimary(ts) ==
    \/ Len(ts) = 1 /\ ts[1] \in {"NUMBER", "STRING", "BOOLEAN"}
    \/ IsList(ts)
    \/ IsAggregator(ts)
    \/ IsIdentifierOrProperty(ts)
    \/ /\ Len(ts) >= 3
       /\ ts[1] = "LPAREN"
       /\ ts[Len(ts)] = "RPAREN"
       /\ IsExpression(SubSeq(ts, 2, Len(ts) - 1))

\* comparison := primary (op primary)?
IsComparison(ts) ==
    \/ IsPrimary(ts)
    \/ \E i \in 2..(Len(ts) - 1) :
          /\ ts[i] \in ComparisonTokenTypes
          /\ IsPrimary(SubSeq(ts, 1, i - 1))
          /\ IsPrimary(SubSeq(ts, i + 1, Len(ts)))

\* factor := NOT factor | comparison
IsFactor(ts) ==
    \/ Len(ts) >= 2 /\ ts[1] = "NOT" /\ IsFactor(Tail(ts))
    \/ IsComparison(ts)

\* term := factor (AND factor)*
IsTerm(ts) ==
    \/ IsFactor(ts)
    \/ \E i \in 2..(Len(ts) - 1) :
          /\ ts[i] = "AND"
          /\ IsTerm(SubSeq(ts, 1, i - 1))
          /\ IsFactor(SubSeq(ts, i + 1, Len(ts)))

\* expression := term (OR term)*
IsExpression(ts) ==
    \/ IsTerm(ts)
    \/ \E i \in 2..(Len(ts) - 1) :
          /\ ts[i] = "OR"
          /\ IsExpression(SubSeq(ts, 1, i - 1))
          /\ IsTerm(SubSeq(ts, i + 1, Len(ts)))

TypesOf(toks) == [i \in 1..Len(toks) |-> toks[i].type]

\* An expression of the grammar immediately followed by EOF.
IsFormula(toks) ==
    /\ Len(toks) >= 2
    /\ toks[Len(toks)].type = "EOF"
    /\ IsExpression(SubSeq(TypesOf(toks), 1, Len(toks) - 1))

(***************************************************************************)
(* Bounded inputs of the lexer and the parser                              *)
(***************************************************************************)
MaxTokens == 3

RECURSIVE JoinWords(_)
\* " ".join(words)
JoinWords(words) ==
    IF words = <<>> THEN <<>>
    ELSE IF Len(words) = 1 THEN words[1]
    ELSE words[1] \o <<" ">> \o JoinWords(Tail(words))

Lexemes ==
    { <<"a">>, Sun, One, <<SUPERSCRIPT_TWO>>, OpEQ, OpIN, OpAND, OpOR, OpNOT,
      <<"(">>, <<")">>, <<"[">>, <<"]">>, <<",">>, <<".">>, AggPlanets, <<"=">> }

\* Every formula of at most MaxTokens of these lexemes.
FreeLexemes ==
    { <<"a">>, One, <<SUPERSCRIPT_TWO>>, OpEQ, OpAND, OpOR, OpNOT,
      <<"(">>, <<")">>, <<"[">>, <<"]">>, <<".">>, AggPlanets }
FreeFormulas == {JoinWords(ws) : ws \in SeqsUpTo(FreeLexemes, MaxTokens)}

\* Operand expressions, each with the AST the grammar gives it.
Operand(text, node) == [text |-> text, node |-> node]
Operands ==
    { Operand(<<"a">>, Identifier(<<"a">>)),
      Operand(Sun \o <<".">> \o Sign, Property(Identifier(Sun), Sign)),
      Operand(JoinWords(<<Moon, OpEQ, One>>),
              Comparison(OpEQ, Identifier(Moon), NumberNode(PyInt(1)))),
      Operand(TrueText, BooleanNode(TRUE)),
      Operand(JoinWords(<<OpNOT, Leo>>), UnaryOp(OpNOT, Identifier(Leo))),
      Operand(JoinWords(<<Aries, OpIN, <<"[">>, One, <<"]">> >>),
              Comparison(OpIN, Identifier(Aries), ListNode(<<NumberNode(PyInt(1))>>))),
      Operand(JoinWords(<<<<"(">>, Sun, OpOR, Moon, <<")">> >>),
              BinaryOp(OpOR, Identifier(Sun), Identifier(Moon))) }

NotAnd(A, B) == JoinWords(<<OpNOT, A.text, OpAND, B.text>>)
OrAnd(A, B, C) == JoinWords(<<A.text, OpOR, B.text, OpAND, C.text>>)
ParenOrAnd(A, B, C) ==
    <<"(">> \o JoinWords(<<A.text, OpOR, B.text>>) \o <<")">>
        \o <<" ">> \o JoinWords(<<OpAND, C.text>>)

PrecedenceFormulas ==
    {NotAnd(A, B) : A, B \in Operands}
    \cup {OrAnd(A, B, C) : A, B, C \in Operands}
    \cup {ParenOrAnd(A, B, C) : A, B, C \in Operands}

\* A complete expression followed by one more lexeme.
TrailingFormulas == {JoinWords(<<A.text, l>>) : A \in Operands, l \in Lexemes}

\* Comparisons of comparisons: chained, parenthesised on either side, and
\* joined by a logical operator.
Atoms == {<<"a">>, One, Sun \o <<".">> \o Sign}
ChainOps == {OpEQ, OpLT}
Chained(A, p, B, q, C) == JoinWords(<<A, p, B, q, C>>)
ParenLeft(A, p, B, q, C) == JoinWords(<<<<"(">>, A, p, B, <<")">>, q, C>>)
ParenRight(A, p, B, q, C) == JoinWords(<<A, p, <<"(">>, B, q, C, <<")">> >>)
ParenBoth(A, p, B, q, C) ==
    JoinWords(<<<<"(">>, A, p, B, <<")">>, OpAND, <<"(">>, B, q, C, <<")">> >>)
ChainedFormulas ==
    {Chained(A, p, B, q, C) : A \in Atoms, p \in ChainOps, B \in Atoms, q \in ChainOps, C \in Atoms}
ParenthesisedFormulas ==
    {ParenLeft(A, p, B, q, C) : A \in Atoms, p \in ChainOps, B \in Atoms, q \in ChainOps, C \in Atoms}
    \cup {ParenRight(A, p, B, q, C) : A \in Atoms, p \in ChainOps, B \in Atoms, q \in ChainOps, C \in Atoms}
    \cup {ParenBoth(A, p, B, q, C) : A \in Atoms, p \in ChainOps, B \in Atoms, q \in ChainOps, C \in Atoms}

\* Short texts of blanks, comment text and a letter.
MaxBlankLen == 3
BlankTexts == SeqsUpTo({" ", TAB, NEWLINE, "#", "a"}, MaxBlankLen)

\* An opening '(' or '[' that is never closed.
ListElementTexts == {One, <<"a">>, TrueText, <<SQUOTE, "s", SQUOTE>>}
UnclosedFormulas ==
    {JoinWords(<<<<"(">>, A.text>>) : A \in Operands}
    \cup {JoinWords(<<<<"(">>, <<"(">>, A.text, <<")">> >>) : A \in Operands}
    \cup {JoinWords(<<<<"(">>, A.text, B.text>>) : A \in Operands, B \in Operands}
    \cup {JoinWords(<<<<"[">>, e>>) : e \in ListElementTexts}
    \cup {JoinWords(<<<<"[">>, e, <<",">>, f>>) : e \in ListElementTexts, f \in ListElementTexts}
    \cup {JoinWords(<<<<"[">>, e, <<",">> >>) : e \in ListElementTexts}
    \cup {JoinWords(<<<<"[">>, e, f>>) : e \in ListElementTexts, f \in ListElementTexts}
    \cup {JoinWords(<<<<"(">>, <<"[">>, e, <<")">> >>) : e \in ListElementTexts}

Formulas ==
    FreeFormulas \cup PrecedenceFormulas \cup TrailingFormulas
    \cup ChainedFormulas \cup ParenthesisedFormulas \cup BlankTexts
    \cup UnclosedFormulas

(***************************************************************************)
(* Specification of parse(formula): tokenize, then Parser(tokens).parse()  *)
(***************************************************************************)
ParseInit ==
    /\ check \in Formulas
    /\ pc = "tokenize"
    /\ token_list = <<>>
    /\ ast = None
    /\ result = None
    /\ chart_data = <<>>
    /\ stdout = <<>>
    /\ stderr = <<>>
    /\ exit_code = None
    /\ NoCache
    /\ NoScan
    /\ NoWalk

\* tokens = tokenize(formula)
LexerTokenize ==
    /\ pc = "tokenize"
    /\ LET lexed == Tokenize(check) IN
       IF lexed.st = "ok"
       THEN /\ token_list' = lexed.tokens
            /\ pc' = "parse"
            /\ UNCHANGED result
       ELSE /\ result' = lexed
            /\ pc' = "raised"
            /\ UNCHANGED token_list
    /\ UNCHANGED <<chart_data, ast, check, stdout, stderr, exit_code>>
    /\ UNCHANGED <<cache_vars, scan_vars, walk_vars>>

\* Parser(tokens).parse()
ParserParseTokens ==
    /\ pc = "parse"
    /\ LET parsed == ParserParse(token_list) IN
       /\ result' = parsed
       /\ ast' = IF parsed.st = "ok" THEN parsed.node ELSE ast
    /\ pc' = "parsed"
    /\ UNCHANGED <<chart_data, check, token_list, stdout, stderr, exit_code>>
    /\ UNCHANGED <<cache_vars, scan_vars, walk_vars>>

ParseNext == LexerTokenize \/ ParserParseTokens

SpecParse == ParseInit /\ [][ParseNext]_vars

(***************************************************************************)
(* Claims about the parser (checked under SpecParse)                       *)
(***************************************************************************)
ParseReturned == pc = "parsed"
ParsedTo(node) == result.st = "ok" /\ result.node = node

\* The three precedence forms over all operands, each with the AST claimed.
NotAndCases ==
    {Operand(NotAnd(A, B), BinaryOp(OpAND, UnaryOp(OpNOT, A.node), B.node)) :
        A \in Operands, B \in Operands}
OrAndCases ==
    {Operand(OrAnd(A, B, C), BinaryOp(OpOR, A.node, BinaryOp(OpAND, B.node, C.node))) :
        A \in Operands, B \in Operands, C \in Operands}
ParenOrAndCases ==
    {Operand(ParenOrAnd(A, B, C), BinaryOp(OpAND, BinaryOp(OpOR, A.node, B.node), C.node)) :
        A \in Operands, B \in Operands, C \in Operands}

\* C9: NOT binds tighter than AND, AND tighter than OR, and parentheses
\* override: for all operands A, B, C, 'NOT A AND B' parses to AND(NOT(A), B),
\* 'A OR B AND C' to OR(A, AND(B, C)) and '(A OR B) AND C' to AND(OR(A, B), C).
C9_Precedence ==
    ParseReturned /\ check \in PrecedenceFormulas =>
        \A c \in NotAndCases \cup OrAndCases \cup ParenOrAndCases :
            check = c.text => ParsedTo(c.node)

\* 'Sun.Sign OR Moon == 1 AND NOT Leo' has been parsed to OR(_, AND(_, _)).
C9_Witness ==
    /\ ParseReturned
    /\ \E c \in OrAndCases :
          /\ c.node.left.type = "PROPERTY"
          /\ c.node.right.left.type = "COMPARISON"
          /\ c.node.right.right.type = "UNARY_OP"
          /\ check = c.text
          /\ ParsedTo(c.node)

\* '(A OR B) AND C' has been parsed with the parenthesised OR below the AND.
C9_WitnessParen ==
    /\ ParseReturned
    /\ \E c \in ParenOrAndCases : check = c.text /\ ParsedTo(c.node)

\* C10: Parser.parse returns an AST exactly for the token streams that are an
\* expression of the grammar followed by EOF, and raises ParserError for every
\* other stream.
C10_AcceptsIffDerivable ==
    ParseReturned =>
        IF IsFormula(token_list) THEN result.st = "ok" ELSE result.st = "ParserError"

\* Every NUMBER token of the stream has a text that int() / float() converts.
NumbersConvert(toks) ==
    \A i \in 1..Len(toks) : toks[i].type = "NUMBER" => NumberOfText(toks[i].value).ok

\* On streams whose NUMBER texts all convert, parse accepts exactly the
\* formulas of the grammar and raises ParserError for the rest.
AcceptsIffDerivable_WhenNumbersConvert ==
    ParseReturned /\ NumbersConvert(token_list) =>
        IF IsFormula(token_list) THEN result.st = "ok" ELSE result.st = "ParserError"

\* A grammatical stream (NUMBER EOF) on which parse raises ValueError.
C10_Witness ==
    ParseReturned /\ IsFormula(token_list) /\ result.st = "ValueError"

\* 'Sun.Sign ==' and a stream with tokens left over are rejected with ParserError.
C10_WitnessRejected ==
    /\ ParseReturned
    /\ check = JoinWords(<<Sun \o <<".">> \o Sign, OpEQ>>)
    /\ result.st = "ParserError"

(***************************************************************************)
(* The natal command with --check (src/main.py)                            *)
(***************************************************************************)
\* typer.Exit(code): click.exceptions.Exit, a RuntimeError
Exit(code) == [st |-> "Exit", code |-> code]
IsValueError(exc) == exc.st = "ValueError"
\* isinstance(exc, Exception): every exception of the model, typer.Exit included
IsException(exc) == exc.st \in {"Exit", "ValueError", "TypeError", "RuntimeError",
                                "LexerError", "ParserError", "EvaluatorError"}

Echo(label) == <<[label |-> label]>>
FormattedResult(formula, value) ==
    <<[label |-> "DSL Formula Check", formula |-> formula, result |-> value]>>
JsonDump == Echo("json")

\* How a run leaves the command: what it echoed, what it raised (None when it
\* returned) and the outcome of evaluate(check, chart_data) (None when not called).
Left(out, err, exc, dsl) == [out |-> out, err |-> err, exc |-> exc, dsl |-> dsl]

\* The inner try of the `if check:` block after evaluate, and its handlers.
CheckOutcome(formula, dsl_result) ==
    CASE dsl_result.st = "ok" ->
             Left(FormattedResult(formula, dsl_result.val), <<>>, None, dsl_result)
      [] dsl_result.st = "LexerError" ->
             Left(<<>>, Echo("Lexer Error"), Exit(2), dsl_result)
      [] dsl_result.st = "ParserError" ->
             Left(<<>>, Echo("Parser Error"), Exit(2), dsl_result)
      [] dsl_result.st = "EvaluatorError" ->
             Left(<<>>, Echo("Evaluator Error"), Exit(2), dsl_result)
      [] OTHER -> Left(<<>>, Echo("Unexpected DSL Error"), Exit(1), dsl_result)

\* The `if check:` block.
CheckBranch(formula, chart) == CheckOutcome(formula, EvaluateFormula(formula, chart))

\* The body of the outer try: steps 1-4 (their outcome is `steps`), then the
\* --check block, then the JSON output when the block did not return.
NatalBody(steps, formula, chart) ==
    IF steps # "ok" THEN Left(<<>>, <<>>, [st |-> steps], None)
    ELSE IF formula # <<>> THEN CheckBranch(formula, chart)
    ELSE Left(JsonDump, <<>>, None, None)

\* The handlers of the outer try: except ValueError, then except Exception.
OuterHandlers(left) ==
    IF left.exc = None THEN left
    ELSE IF IsValueError(left.exc)
    THEN Left(left.out, left.err \o Echo("Error"), Exit(2), left.dsl)
    ELSE IF IsException(left.exc)
    THEN Left(left.out, left.err \o Echo("Unexpected error"), Exit(1), left.dsl)
    ELSE left

\* The exit status typer gives the process.
ExitStatus(exc) == IF exc = None THEN 0 ELSE exc.code

StepOutcomes == {"ok", "ValueError", "RuntimeError"}

CliFormulas ==
    TrailingFormulas
    \cup { <<>>,
           JoinWords(<<Sun \o <<".">> \o Sign, OpEQ, Aries>>),
           JoinWords(<<Sun \o <<".">> \o Sign, OpEQ, Leo>>),
           JoinWords(<<Pluto \o <<".">> \o Sign, OpEQ, Aries>>),
           JoinWords(<<Sun \o <<".">> \o Sign, OpLT, One>>),
           JoinWords(<<Sun \o <<".">> \o House, OpIN, <<"[">>, One, <<"]">> >>),
           AggPlanets \o <<".">> \o Sign,
           <<SUPERSCRIPT_TWO>>,
           <<"@">>,
           <<SQUOTE, "a">> }

\* Charts as convert_chart_for_evaluator returns them: planets and houses.
CliCharts ==
    {c \in Charts : DictHas(c, "planets") /\ DictHas(c, "houses")
                    /\ ~DictHas(c, "aspects")
                    /\ DictHas(DictGet(c, "planets"), Sun)
                    /\ Len(DictGet(c, "houses")) = 1}

CliInit ==
    /\ check \in CliFormulas
    /\ chart_data \in CliCharts
    /\ pc = "natal"
    /\ stdout = <<>>
    /\ stderr = <<>>
    /\ exit_code = None
    /\ NoCache
    /\ NoScan
    /\ NoWalk
    /\ result = None
    /\ ast = None
    /\ token_list = <<>>

\* The process ends: its output and exit status.
ProcessEnds(left) ==
    /\ stdout' = stdout \o left.out
    /\ stderr' = stderr \o left.err
    /\ exit_code' = ExitStatus(left.exc)
    /\ result' = left.dsl

\* natal(date, time, place, check=check): runs to the end of the process.
Natal ==
    /\ pc = "natal"
    /\ \E steps \in StepOutcomes :
          ProcessEnds(OuterHandlers(NatalBody(steps, check, chart_data)))
    /\ pc' = "exited"
    /\ UNCHANGED <<chart_data, ast, check, token_list>>
    /\ UNCHANGED <<cache_vars, scan_vars, walk_vars>>

CliNext == Natal

SpecCli == CliInit /\ [][CliNext]_vars

(***************************************************************************)
(* Claims about the command line (checked under SpecCli)                   *)
(***************************************************************************)
Exited == pc = "exited"
CheckRan == Exited /\ result # None
DslErrors == {"LexerError", "ParserError", "EvaluatorError"}
DslLabel ==
    CASE result.st = "LexerError" -> "Lexer Error"
      [] result.st = "ParserError" -> "Parser Error"
      [] result.st = "EvaluatorError" -> "Evaluator Error"
      [] OTHER -> "Unexpected DSL Error"

\* C8: with --check, a LexerError, ParserError or EvaluatorError prints its
\* labelled message to standard error and ends the process with status 2; any
\* other failure of the check ends it with status 1; a successful evaluation
\* prints the formula and the result and ends it with status 0, with no JSON
\* dump on standard output.
C8_CheckExitStatus ==
    CheckRan =>
        CASE result.st \in DslErrors ->
                 /\ exit_code = 2
                 /\ \E i \in 1..Len(stderr) : stderr[i].label = DslLabel
          [] result.st = "ok" ->
                 /\ exit_code = 0
                 /\ stdout = FormattedResult(check, result.val)
          [] OTHER -> exit_code = 1

\* What the command does: every failure of the check, a DSL error included,
\* leaves through the outer handler and ends the process with status 1 after
\* its labelled message and "Unexpected error" on standard error; a successful
\* evaluation prints only the formatted result and ends with status 0.
CheckExitStatusAsCoded ==
    CheckRan =>
        IF result.st = "ok"
        THEN /\ exit_code = 0
             /\ stdout = FormattedResult(check, result.val)
             /\ stderr = <<>>
        ELSE /\ exit_code = 1
             /\ stdout = <<>>
             /\ stderr = Echo(DslLabel) \o Echo("Unexpected error")

\* A formula the parser rejects has been checked: "Parser Error" is on
\* standard error and the exit status is 1.
C8_Witness ==
    /\ CheckRan
    /\ result.st = "ParserError"
    /\ stderr[1].label = "Parser Error"
    /\ exit_code = 1
\* A formula has been checked successfully.
C8_WitnessSuccess == CheckRan /\ result.st = "ok" /\ exit_code = 0

(***************************************************************************)
(* Claims about comparisons in the AST (checked under SpecParse)           *)
(***************************************************************************)
ParseAccepted == ParseReturned /\ result.st = "ok"
HasToken(type) == \E i \in 1..Len(token_list) : token_list[i].type = type
PrimaryNodeTypes ==
    {"IDENTIFIER", "NUMBER", "STRING", "BOOLEAN", "LIST", "PROPERTY", "AGGREGATOR"}

\* No Comparison node of the tree has a Comparison node as an operand.
RECURSIVE NoComparisonOfComparison(_)
NoComparisonOfComparison(node) ==
    CASE node.type = "COMPARISON" ->
             /\ node.left.type # "COMPARISON" /\ node.right.type # "COMPARISON"
             /\ NoComparisonOfComparison(node.left)
             /\ NoComparisonOfComparison(node.right)
      [] node.type = "BINARY_OP" ->
             NoComparisonOfComparison(node.left) /\ NoComparisonOfComparison(node.right)
      [] node.type = "UNARY_OP" -> NoComparisonOfComparison(node.operand)
      [] OTHER -> TRUE

\* Every operand of every Comparison node of the tree is a primary without
\* parentheses.
RECURSIVE ComparesPrimaries(_)
ComparesPrimaries(node) ==
    CASE node.type = "COMPARISON" ->
             node.left.type \in PrimaryNodeTypes /\ node.right.type \in PrimaryNodeTypes
      [] node.type = "BINARY_OP" ->
             ComparesPrimaries(node.left) /\ ComparesPrimaries(node.right)
      [] node.type = "UNARY_OP" -> ComparesPrimaries(node.operand)
      [] OTHER -> TRUE

\* C11 as stated: in every AST parse returns, no operand of a Comparison is a
\* Comparison; a chained comparison is rejected with ParserError.
C11_NoComparisonOperand ==
    /\ ParseAccepted => NoComparisonOfComparison(result.node)
    /\ ParseReturned /\ check \in ChainedFormulas => result.st = "ParserError"

\* C11 amended: a comparison written without parentheses has only primaries as
\* operands, so an unparenthesised chain 'A op B op C' is rejected with
\* ParserError; an operand written in parentheses can be any expression, a
\* comparison included, so '(A op B) op C' and 'A op (B op C)' parse to a
\* Comparison with a Comparison operand.
C11_ComparisonNestsOnlyInParentheses ==
    /\ ParseAccepted /\ ~HasToken("LPAREN") => ComparesPrimaries(result.node)
    /\ ParseReturned /\ check \in ChainedFormulas => result.st = "ParserError"
    /\ ParseReturned =>
          \A A \in Atoms, p \in ChainOps, B \in Atoms, q \in ChainOps, C \in Atoms :
              /\ check = ParenLeft(A, p, B, q, C) =>
                     /\ result.st = "ok"
                     /\ result.node.type = "COMPARISON" /\ result.node.value = q
                     /\ result.node.left.type = "COMPARISON" /\ result.node.left.value = p
              /\ check = ParenRight(A, p, B, q, C) =>
                     /\ result.st = "ok"
                     /\ result.node.type = "COMPARISON" /\ result.node.value = p
                     /\ result.node.right.type = "COMPARISON" /\ result.node.right.value = q

\* '( a == 1 ) < 1' has been parsed to a Comparison whose left operand is a
\* Comparison.
C11_Witness ==
    /\ ParseAccepted
    /\ check = ParenLeft(<<"a">>, OpEQ, One, OpLT, One)
    /\ result.node.type = "COMPARISON"
    /\ result.node.left.type = "COMPARISON"

\* A chained comparison 'A op B op C' has been rejected.
C11_WitnessChain ==
    ParseReturned /\ check \in ChainedFormulas /\ result.st = "ParserError"

(***************************************************************************)
(* Claims about empty formulas (checked under SpecParse)                   *)
(***************************************************************************)
OnlyEOF(toks) == Len(toks) = 1 /\ toks[1].type = "EOF"
EmptyFormulaError == ParserError([text |-> "empty formula"], NoToken)

\* C12: a token stream that is EOF alone (an empty, whitespace-only or
\* comment-only formula) fails with the 'empty formula' ParserError, not with
\* the unexpected-token error; no other stream fails with 'empty formula'.
C12_EmptyFormula ==
    ParseReturned =>
        IF OnlyEOF(token_list) THEN result = EmptyFormulaError
        ELSE result.st = "ParserError" => result.message.text # "empty formula"

\* A comment-only formula has been rejected as empty.
C12_Witness ==
    /\ ParseReturned
    /\ check = <<" ", "#", "a">>
    /\ OnlyEOF(token_list)
    /\ result = EmptyFormulaError

(***************************************************************************)
(* Claims about unmatched brackets (checked under SpecParse)               *)
(***************************************************************************)
RECURSIVE CountType(_, _)
CountType(toks, type) ==
    IF toks = <<>> THEN 0
    ELSE (IF Head(toks).type = type THEN 1 ELSE 0) + CountType(Tail(toks), type)

Unmatched(open, close) == CountType(token_list, open) > CountType(token_list, close)
ExpectedGotEOF(type) ==
    /\ result.st = "ParserError"
    /\ result.message = [text |-> "expected token", expected |-> type, got |-> "EOF"]

\* The token types between the first token and the final EOF.
Inner == SubSeq(TypesOf(token_list), 2, Len(token_list) - 1)

C13_WitnessBracket ==
    /\ ParseReturned
    /\ check = JoinWords(<<<<"[">>, One, <<",">>, <<"a">> >>)
    /\ ExpectedGotEOF("RBRACKET")

\* A lone '(' has been rejected with another message.
C13_WitnessOtherMessage ==
    /\ ParseReturned
    /\ check = <<"(">>
    /\ result.st = "ParserError"
    /\ result.message.text = "unexpected token"

(***************************************************************************)
(* Bounded inputs of the lexer: every text of at most MaxTextLen           *)
(* characters over each of these alphabets, and pairs of words.            *)
(***************************************************************************)
MaxTextLen == 4

StringChars == {DQUOTE, SQUOTE, BACKSLASH, "n", "t", "a"}
OperatorChars == {"=", "!", "<", "&", "|", "@", "a", " "}
NumberChars == {"1", ".", "a", SUPERSCRIPT_TWO, "_", " "}
CommentChars == {"#", NEWLINE, " ", "a", "@"}
PositionChars == {DQUOTE, NEWLINE, "a", "#"}

Words ==
    { OpAND, OpOR, OpNOT, OpIN, TrueText, <<"F", "a", "l", "s", "e">>,
      AggPlanets, AggAspects, AggHouses,
      <<"a", "n", "d">>, <<"o", "r">>, <<"i", "n">>, <<"t", "r", "u", "e">>,
      <<"P", "l", "a", "n", "e", "t", "s">>, <<"P", "L", "A", "N", "E", "T", "S">>,
      <<"A", "N", "D", "_">>, <<"_", "I", "N">>, <<"O", "R", "1">>, <<"N", "O", "T", "a">>,
      <<E_ACUTE>>, <<"a", E_ACUTE>>, <<"a", SUPERSCRIPT_TWO>>, Sun, <<"_">>, <<"1", "a">> }
WordSeparators == {<<" ">>, <<".">>, <<>>, <<"=", "=">>}
WordTexts == Words \cup {v \o sep \o w : v \in Words, sep \in WordSeparators, w \in Words}

LexTexts ==
    SeqsUpTo(StringChars, MaxTextLen) \cup SeqsUpTo(OperatorChars, MaxTextLen)
    \cup SeqsUpTo(NumberChars, MaxTextLen) \cup SeqsUpTo(CommentChars, MaxTextLen)
    \cup SeqsUpTo(PositionChars, MaxTextLen) \cup WordTexts

(***************************************************************************)
(* Specification of tokenize(text)                                         *)
(***************************************************************************)
LexInit ==
    /\ check \in LexTexts
    /\ pc = "tokenize"
    /\ token_list = <<>>
    /\ ast = None
    /\ result = None
    /\ chart_data = <<>>
    /\ stdout = <<>>
    /\ stderr = <<>>
    /\ exit_code = None
    /\ NoCache
    /\ NoScan
    /\ NoWalk

LexNext == LexerTokenize

SpecLex == LexInit /\ [][LexNext]_vars

(***************************************************************************)
(* Claims about the lexer (checked under SpecLex)                          *)
(***************************************************************************)
TokensReturned == pc = "parse"
LexerRaised == pc = "raised"

RECURSIVE CountChar(_, _)
CountChar(text, c) ==
    IF text = <<>> THEN 0
    ELSE (IF Head(text) = c THEN 1 ELSE 0) + CountChar(Tail(text), c)

\* The text without its blanks and its comments (from '#' to the end of the
\* line); for texts without quotes.
RECURSIVE Significant(_, _)
Significant(text, in_comment) ==
    IF text = <<>> THEN <<>>
    ELSE IF in_comment THEN Significant(Tail(text), Head(text) # NEWLINE)
    ELSE IF Head(text) = "#" THEN Significant(Tail(text), TRUE)
    ELSE IF IsSpace(Head(text)) THEN Significant(Tail(text), FALSE)
    ELSE <<Head(text)>> \o Significant(Tail(text), FALSE)

RECURSIVE ConcatValues(_)
ConcatValues(toks) ==
    IF toks = <<>> THEN <<>> ELSE Head(toks).value \o ConcatValues(Tail(toks))

HasQuote(text) == \E i \in 1..Len(text) : text[i] \in {DQUOTE, SQUOTE}

\* C14: tokenize either returns a list whose last token, and no other, is EOF,
\* holding the text's tokens in source order and up to the end of the text
\* (nothing dropped), or raises LexerError with a line and a column.
C14_CompleteOrLexerError ==
    /\ TokensReturned =>
          /\ Len(token_list) >= 1
          /\ token_list[Len(token_list)].type = "EOF"
          /\ \A i \in 1..(Len(token_list) - 1) : token_list[i].type # "EOF"
          /\ token_list[Len(token_list)].line = 1 + CountChar(check, NEWLINE)
          /\ ~HasQuote(check) => ConcatValues(token_list) = Significant(check, FALSE)
          /\ result = None
    /\ LexerRaised =>
          /\ result.st = "LexerError"
          /\ result.line \in 1..(1 + CountChar(check, NEWLINE))
          /\ result.column \in 0..Len(check)
          /\ token_list = <<>>

\* Three tokens and the EOF have been returned for 'a<=a'.
C14_Witness ==
    /\ TokensReturned
    /\ check = <<"a", "<", "=", "a">>
    /\ Len(token_list) = 4
    /\ token_list[4].type = "EOF"

\* tokenize has raised after a first good token.
C14_WitnessRaised ==
    LexerRaised /\ check = <<"a", " ", "@">> /\ result.st = "LexerError"

\* A character that starts or continues some lexeme on its own: with the
\* classes the lexer tests (scanned), or with the digits 0-9 and the
\* identifier characters [A-Za-z0-9_].
Recognised(c, scanned) ==
    \/ IsSpace(c) \/ c = "#" \/ c \in {DQUOTE, SQUOTE} \/ SingleCharType(c) # ""
    \/ c = "_"
    \/ IF scanned THEN IsAlnum(c)
       ELSE c \in DecimalDigits \cup UpperLetters \cup LowerLetters

\* The position [line, column] of the first character of a quote-free text,
\* from index i on, that is outside comments, is not recognised and is not
\* part of a two-character operator; None when there is none.
RECURSIVE FirstUnknown(_, _, _, _, _, _)
FirstUnknown(text, i, line, column, in_comment, scanned) ==
    IF i > Len(text) THEN None
    ELSE IF text[i] = NEWLINE THEN FirstUnknown(text, i + 1, line + 1, 0, FALSE, scanned)
    ELSE IF in_comment THEN FirstUnknown(text, i + 1, line, column + 1, TRUE, scanned)
    ELSE IF text[i] = "#" THEN FirstUnknown(text, i + 1, line, column + 1, TRUE, scanned)
    ELSE IF i < Len(text) /\ TwoCharType(<<text[i], text[i + 1]>>) # ""
         THEN FirstUnknown(text, i + 2, line, column + 2, FALSE, scanned)
    ELSE IF Recognised(text[i], scanned)
         THEN FirstUnknown(text, i + 1, line, column + 1, FALSE, scanned)
    ELSE [line |-> line, column |-> column]

RaisesAtFirstUnknown(scanned) ==
    (pc # "tokenize" /\ ~HasQuote(check)) =>
        LET unknown == FirstUnknown(check, 1, 1, 0, FALSE, scanned) IN
        IF unknown = None THEN TokensReturned
        ELSE /\ LexerRaised
             /\ result = LexerError("unknown character", unknown.line, unknown.column)

\* C15: outside strings and comments a character that is not a blank, '#', a
\* digit 0-9, a quote, an identifier character [A-Za-z0-9_], part of a
\* two-character operator or a one-character token makes tokenize raise
\* LexerError with that character's line and column (and on a text without
\* quotes tokenize raises for no other reason).
C15_UnknownCharacter == RaisesAtFirstUnknown(FALSE)

\* The same with the characters str.isalpha(), str.isdigit() and str.isalnum()
\* accept counted as identifier characters and digits.
UnknownCharacter_AsScanned == RaisesAtFirstUnknown(TRUE)

\* SUPERSCRIPT TWO, which is none of the listed characters, has been returned
\* as a NUMBER token.
C15_Witness ==
    /\ TokensReturned
    /\ check = <<SUPERSCRIPT_TWO>>
    /\ token_list[1].type = "NUMBER"

\* A lone '=' after the operator '<=' has been reported at column 2.
C15_WitnessEquals ==
    /\ LexerRaised
    /\ check = <<"<", "=", "=">>
    /\ result = LexerError("unknown character", 1, 2)

\* '@' on the second line, after a comment that holds one, has been reported.
C15_WitnessSecondLine ==
    /\ LexerRaised
    /\ check = <<"#", "@", NEWLINE, "@">>
    /\ result = LexerError("unknown character", 2, 0)

\* The characters that may start and continue an identifier: those the lexer
\* tests for (scanned), or those of [A-Za-z_][A-Za-z0-9_]*.
IdentifierStart(c, scanned) ==
    c = "_" \/ IF scanned THEN IsAlpha(c) ELSE c \in UpperLetters \cup LowerLetters
IdentifierPart(c, scanned) ==
    c = "_" \/ IF scanned THEN IsAlnum(c)
               ELSE c \in UpperLetters \cup LowerLetters \cup DecimalDigits

\* The keyword table as pairs <<text, kind>>.
KeywordTable ==
    { <<OpAND, "AND">>, <<OpOR, "OR">>, <<OpNOT, "NOT">>, <<OpIN, "IN">>,
      <<TrueText, "BOOLEAN">>, <<<<"F", "a", "l", "s", "e">>, "BOOLEAN">>,
      <<AggPlanets, "PLANETS">>, <<AggAspects, "ASPECTS">>, <<AggHouses, "HOUSES">> }
WordKinds == {kw[2] : kw \in KeywordTable} \cup {"IDENTIFIER"}

\* Token t was produced by read_identifier (and not from '&&', '||' or '!').
ScannedAsWord(t) ==
    /\ t.type \in WordKinds
    /\ t.value \notin {<<"&", "&">>, <<"|", "|">>, <<"!">>}

\* Token t of a one-line text is a longest identifier run at its column and
\* has the kind the keyword table gives to exactly its text.
IsClassifiedWord(text, t, scanned) ==
    /\ Len(t.value) >= 1
    /\ IdentifierStart(t.value[1], scanned)
    /\ \A i \in 1..Len(t.value) : IdentifierPart(t.value[i], scanned)
    /\ t.column + Len(t.value) <= Len(text)
    /\ SubSeq(text, t.column + 1, t.column + Len(t.value)) = t.value
    /\ t.column + Len(t.value) < Len(text) =>
           ~IdentifierPart(text[t.column + Len(t.value) + 1], scanned)
    /\ IF \E kw \in KeywordTable : kw[1] = t.value
       THEN <<t.value, t.type>> \in KeywordTable
       ELSE t.type = "IDENTIFIER"

WordsClassified(scanned) ==
    (TokensReturned /\ CountChar(check, NEWLINE) = 0 /\ ~HasQuote(check)) =>
        \A i \in 1..Len(token_list) :
            ScannedAsWord(token_list[i]) => IsClassifiedWord(check, token_list[i], scanned)

\* C16: every word scanned as an identifier is the longest run matching
\* [A-Za-z_][A-Za-z0-9_]* at its place and has the kind of the keyword table
\* entry equal to its text, IDENTIFIER when there is none.
C16_IdentifierWords == WordsClassified(FALSE)

\* The same for runs of the characters str.isalpha()/str.isalnum() accept.
IdentifierWords_AsScanned == WordsClassified(TRUE)

\* The word 'e-acute' has been returned as an IDENTIFIER token.
C16_Witness ==
    /\ TokensReturned
    /\ check = <<E_ACUTE>>
    /\ token_list[1] = Token("IDENTIFIER", <<E_ACUTE>>, 1, 0)

\* 'and AND' has been returned as IDENTIFIER('and'), AND('AND').
C16_WitnessKeyword ==
    /\ TokensReturned
    /\ check = <<"a", "n", "d", " ", "A", "N", "D">>
    /\ token_list[1].type = "IDENTIFIER"
    /\ token_list[2].type = "AND"

\* 'PLANETS.planets' has been returned as IDENTIFIER, DOT, PLANETS.
C16_WitnessAggregator ==
    /\ TokensReturned
    /\ check = <<"P", "L", "A", "N", "E", "T", "S", ".">> \o AggPlanets
    /\ token_list[1].type = "IDENTIFIER"
    /\ token_list[3].type = "PLANETS"

\* A digit: a character str.isdigit() accepts (scanned), or one of 0-9.
DigitChar(c, scanned) == IF scanned THEN IsDigit(c) ELSE IsDecimal(c)

\* Token t of a one-line text is a longest run of digits at its column,
\* extended by '.' and digits exactly when a digit follows the dot.
IsLongestNumber(text, t, scanned) ==
    LET dot == IndexOf(t.value, ".")
        whole == IF dot = 0 THEN t.value ELSE SubSeq(t.value, 1, dot - 1)
        frac == IF dot = 0 THEN <<>> ELSE SubSeq(t.value, dot + 1, Len(t.value))
        end == t.column + Len(t.value)
    IN  /\ Len(whole) >= 1
        /\ \A i \in 1..Len(whole) : DigitChar(whole[i], scanned)
        /\ \A i \in 1..Len(frac) : DigitChar(frac[i], scanned)
        /\ dot > 0 => Len(frac) >= 1
        /\ end <= Len(text)
        /\ SubSeq(text, t.column + 1, end) = t.value
        /\ end < Len(text) => ~DigitChar(text[end + 1], scanned)
        /\ (dot = 0 /\ end + 1 < Len(text) /\ text[end + 1] = ".") =>
               ~DigitChar(text[end + 2], scanned)

NumbersAreLongestRuns(scanned) ==
    (TokensReturned /\ CountChar(check, NEWLINE) = 0 /\ ~HasQuote(check)) =>
        /\ \A i \in 1..Len(token_list) :
               token_list[i].type = "NUMBER" => IsLongestNumber(check, token_list[i], scanned)
        /\ \A i \in 1..Len(token_list) :
               token_list[i].type = "DOT" =>
                   ~(/\ i > 1
                     /\ token_list[i - 1].type = "NUMBER"
                     /\ token_list[i - 1].column + Len(token_list[i - 1].value)
                            = token_list[i].column
                     /\ IndexOf(token_list[i - 1].value, ".") = 0
                     /\ token_list[i].column + 1 < Len(check)
                     /\ DigitChar(check[token_list[i].column + 2], scanned))

\* C17: a NUMBER token is the longest run of digits 0-9, with '.' and digits
\* only when a digit follows the dot (a '.' not so placed is a DOT token), and
\* every NUMBER token text converts in the parser: int() without a dot,
\* float() with one.
C17_NumberTokens ==
    /\ NumbersAreLongestRuns(FALSE)
    /\ TokensReturned => NumbersConvert(token_list)

\* The lexical half for runs of the characters str.isdigit() accepts.
NumberTokens_AsScanned == NumbersAreLongestRuns(TRUE)

\* NUMBER texts made of the digits 0-9 convert.
DecimalNumbersConvert ==
    TokensReturned =>
        \A i \in 1..Len(token_list) :
            (/\ token_list[i].type = "NUMBER"
             /\ \A k \in 1..Len(token_list[i].value) :
                    token_list[i].value[k] \in DecimalDigits \cup {"."})
            => NumberOfText(token_list[i].value).ok

\* A NUMBER token has been returned whose text int() does not convert.
C17_Witness ==
    /\ TokensReturned
    /\ check = <<"1", SUPERSCRIPT_TWO>>
    /\ token_list[1] = Token("NUMBER", <<"1", SUPERSCRIPT_TWO>>, 1, 0)
    /\ ~NumberOfText(token_list[1].value).ok

\* '.1' has been returned as DOT, NUMBER('1') and '1.' as NUMBER('1'), DOT.
C17_WitnessDot ==
    /\ TokensReturned
    /\ \/ check = <<".", "1">> /\ token_list[1].type = "DOT"
                               /\ token_list[2] = Token("NUMBER", <<"1">>, 1, 1)
       \/ check = <<"1", ".">> /\ token_list[1] = Token("NUMBER", <<"1">>, 1, 0)
                               /\ token_list[2].type = "DOT"

\* '1.1' has been returned as one NUMBER token, which converts to a float.
C17_WitnessFraction ==
    /\ TokensReturned
    /\ check = <<"1", ".", "1">>
    /\ token_list[1] = Token("NUMBER", <<"1", ".", "1">>, 1, 0)
    /\ NumberOfText(token_list[1].value).ok

\* The index of the delimiter that closes the literal opened just before
\* index i (a character after a backslash closes nothing); 0 when the text
\* ends first.
RECURSIVE ClosingQuote(_, _, _)
ClosingQuote(text, i, quote) ==
    IF i > Len(text) THEN 0
    ELSE IF text[i] = quote THEN i
    ELSE IF text[i] = BACKSLASH THEN ClosingQuote(text, i + 2, quote)
    ELSE ClosingQuote(text, i + 1, quote)

\* The decoded characters of a literal body; [ok, str].
RECURSIVE Decoded(_, _)
Decoded(body, quote) ==
    IF body = <<>> THEN [ok |-> TRUE, str |-> <<>>]
    ELSE IF Head(body) # BACKSLASH
    THEN LET rest == Decoded(Tail(body), quote)
         IN  [ok |-> rest.ok, str |-> <<Head(body)>> \o rest.str]
    ELSE IF Len(body) < 2 THEN [ok |-> FALSE, str |-> <<>>]
    ELSE LET rest == Decoded(Tail(Tail(body)), quote)
             e == body[2]
         IN  IF e = BACKSLASH THEN [ok |-> rest.ok, str |-> <<BACKSLASH>> \o rest.str]
             ELSE IF e = "n" THEN [ok |-> rest.ok, str |-> <<NEWLINE>> \o rest.str]
             ELSE IF e = "t" THEN [ok |-> rest.ok, str |-> <<TAB>> \o rest.str]
             ELSE IF e = quote THEN [ok |-> rest.ok, str |-> <<quote>> \o rest.str]
             ELSE [ok |-> FALSE, str |-> <<>>]

\* The first escape of a body that is none of the four, if any comes before
\* its end.
RECURSIVE HasBadEscape(_, _)
HasBadEscape(body, quote) ==
    IF body = <<>> THEN FALSE
    ELSE IF Head(body) # BACKSLASH THEN HasBadEscape(Tail(body), quote)
    ELSE IF Len(body) < 2 THEN TRUE
    ELSE IF body[2] \in {BACKSLASH, "n", "t", quote} THEN HasBadEscape(Tail(Tail(body)), quote)
    ELSE TRUE

StartsWithQuote(text) == text # <<>> /\ text[1] \in {DQUOTE, SQUOTE}

\* C18: a text that opens with a quote gives one STRING token holding the
\* literal's decoded characters when the matching quote closes it and its
\* escapes are among \\ \n \t and the escaped delimiter; tokenize raises
\* LexerError, returning no tokens, when another escape comes first or the
\* text ends before the closing quote.
C18_StringLiteral ==
    (pc # "tokenize" /\ StartsWithQuote(check)) =>
        LET quote == check[1]
            close == ClosingQuote(check, 2, quote)
            body == IF close = 0 THEN Tail(check) ELSE SubSeq(check, 2, close - 1)
        IN  IF HasBadEscape(body, quote)
            THEN /\ LexerRaised
                 /\ result.st = "LexerError"
                 /\ result.message = "unknown escape sequence"
                 /\ token_list = <<>>
            ELSE IF close = 0
            THEN /\ LexerRaised
                 /\ result.st = "LexerError"
                 /\ result.message = "unterminated string"
                 /\ token_list = <<>>
            ELSE /\ close = Len(check) => TokensReturned
                 /\ TokensReturned =>
                       /\ token_list[1].type = "STRING"
                       /\ token_list[1].value = Decoded(body, quote).str
                       /\ token_list[1].column = 0
                       /\ close = Len(check) =>
                              /\ Len(token_list) = 2
                              /\ token_list[2].type = "EOF"

\* The literal "\n" has been returned as one STRING token holding a newline.
C18_Witness ==
    /\ TokensReturned
    /\ check = <<DQUOTE, BACKSLASH, "n", DQUOTE>>
    /\ Len(token_list) = 2
    /\ token_list[1].type = "STRING"
    /\ token_list[1].value = <<NEWLINE>>

\* The literal '\'' has been returned as the string of one single quote, and
\* "'" as well.
C18_WitnessDelimiter ==
    /\ TokensReturned
    /\ check \in {<<SQUOTE, BACKSLASH, SQUOTE, SQUOTE>>, <<DQUOTE, SQUOTE, DQUOTE>>}
    /\ token_list[1].type = "STRING"
    /\ token_list[1].value = <<SQUOTE>>

\* The escape \a, and the other delimiter escaped, have raised LexerError.
C18_WitnessEscape ==
    /\ LexerRaised
    /\ check \in {<<DQUOTE, BACKSLASH, "a", DQUOTE>>, <<DQUOTE, BACKSLASH, SQUOTE, DQUOTE>>}
    /\ result.message = "unknown escape sequence"

\* A literal closed by the other quote only has raised LexerError.
C18_WitnessUnterminated ==
    /\ LexerRaised
    /\ check = <<DQUOTE, "a", SQUOTE>>
    /\ result.message = "unterminated string"

(***************************************************************************)
(* Specification of evaluate(formula, chart_data) on formulas written with *)
(* the operator symbols                                                    *)
(***************************************************************************)
SymbolOperands ==
    { TrueText, <<"a">>, One,
      JoinWords(<<Sun \o <<".">> \o Sign, OpEQ, Aries>>),
      JoinWords(<<Sun \o <<".">> \o House, OpNEQ, One>>),
      Pluto \o <<".">> \o Sign,
      JoinWords(<<Sun \o <<".">> \o Sign, OpLTE, One>>) }

\* The operator symbols, set off by blanks or not.
Spaced(op) == {op, <<" ">> \o op \o <<" ">>}

SymbolFormulas ==
    SymbolOperands
    \cup {bang \o A : bang \in Spaced(OpBang), A \in SymbolOperands}
    \cup {OpBang \o OpBang \o A : A \in SymbolOperands}
    \cup {A \o op \o B : A, B \in SymbolOperands,
                         op \in Spaced(OpAmpAmp) \cup Spaced(OpBarBar)
                                \cup {<<"&">>, <<"|">>, <<" ">> \o OpBang \o <<" ">>}}
    \cup {OpBang \o A \o OpAmpAmp \o B : A, B \in SymbolOperands}
    \cup {A \o OpBarBar \o B \o OpAmpAmp \o C : A, B, C \in SymbolOperands}
    \cup {OpBang \o <<"(">> \o A \o OpBarBar \o B \o <<")">> : A, B \in SymbolOperands}
    \cup {op \o A : A \in SymbolOperands, op \in {OpAmpAmp, OpBarBar, OpNEQ}}
    \cup {A \o op : A \in SymbolOperands, op \in {OpAmpAmp, OpBarBar, OpBang, OpLTE}}
    \cup {A \o op \o B : A, B \in {<<"a">>, One},
                         op \in {OpEQ, OpNEQ, OpLTE, OpGTE, OpLT, OpGT,
                                 <<"<", "=", "=">>, <<"!", "=", "=">>, <<"!", "!", "=">>}}

TokensOf(lexed) == IF lexed.st = "ok" THEN lexed.tokens ELSE <<>>

SymbolInit ==
    /\ check \in SymbolFormulas
    /\ chart_data \in SampleCharts
    /\ pc = "call"
    /\ token_list = <<>>
    /\ ast = None
    /\ result = None
    /\ stdout = <<>>
    /\ stderr = <<>>
    /\ exit_code = None
    /\ NoCache
    /\ NoScan
    /\ NoWalk

\* result = evaluate(check, chart_data); token_list keeps the tokens parse
\* was given.
EvaluateCall ==
    /\ pc = "call"
    /\ token_list' = TokensOf(Tokenize(check))
    /\ result' = EvaluateFormula(check, chart_data)
    /\ pc' = "returned"
    /\ UNCHANGED <<check, chart_data, ast, stdout, stderr, exit_code>>
    /\ UNCHANGED <<cache_vars, scan_vars, walk_vars>>

SymbolNext == EvaluateCall

SpecSymbol == SymbolInit /\ [][SymbolNext]_vars

\* The formula with ' AND ', ' OR ', ' NOT ' written for '&&', '||' and '!'
\* ('!=' is left as it is).
RECURSIVE Worded(_)
Worded(text) ==
    IF text = <<>> THEN <<>>
    ELSE IF Len(text) >= 2 /\ SubSeq(text, 1, 2) = OpAmpAmp
    THEN <<" ">> \o OpAND \o <<" ">> \o Worded(SubSeq(text, 3, Len(text)))
    ELSE IF Len(text) >= 2 /\ SubSeq(text, 1, 2) = OpBarBar
    THEN <<" ">> \o OpOR \o <<" ">> \o Worded(SubSeq(text, 3, Len(text)))
    ELSE IF Len(text) >= 2 /\ TwoCharType(SubSeq(text, 1, 2)) # ""
    THEN SubSeq(text, 1, 2) \o Worded(SubSeq(text, 3, Len(text)))
    ELSE IF Head(text) = "!"
    THEN <<" ">> \o OpNOT \o <<" ">> \o Worded(Tail(text))
    ELSE <<Head(text)>> \o Worded(Tail(text))

\* The columns at which a left-to-right scan of an operator-only stretch
\* finds a two-character operator.
RECURSIVE TwoCharStarts(_, _)
TwoCharStarts(text, i) ==
    IF i >= Len(text) THEN {}
    ELSE IF TwoCharType(<<text[i], text[i + 1]>>) # ""
    THEN {i - 1} \cup TwoCharStarts(text, i + 2)
    ELSE TwoCharStarts(text, i + 1)

\* The same value, or an error of the same kind.
SameOutcome(a, b) == a.st = b.st /\ (a.st = "ok" => a = b)

\* C19: a two-character operator is one token wherever the scan meets it;
\* the formula written with '&&', '||', '!' gives the same token kinds as the
\* one written with AND, OR, NOT, and the same value or kind of error on the
\* chart.
C19_SymbolsAreSynonyms ==
    pc = "returned" =>
        /\ Tokenize(Worded(check)).st = Tokenize(check).st
        /\ TypesOf(TokensOf(Tokenize(Worded(check)))) = TypesOf(token_list)
        /\ token_list # <<>> =>
               \A c \in TwoCharStarts(check, 1) :
                   \E i \in 1..Len(token_list) :
                       /\ token_list[i].column = c
                       /\ token_list[i].value = SubSeq(check, c + 1, c + 2)
                       /\ token_list[i].type = TwoCharType(token_list[i].value)
        /\ SameOutcome(result, EvaluateFormula(Worded(check), chart_data))

\* '!a&&True' has been evaluated to False, as 'NOT a AND True' is.
C19_Witness ==
    /\ pc = "returned"
    /\ check = OpBang \o <<"a">> \o OpAmpAmp \o TrueText
    /\ result = Ok(PyBoolV(FALSE))
    /\ EvaluateFormula(JoinWords(<<OpNOT, <<"a">>, OpAND, TrueText>>), chart_data) = result

\* 'a!=1' has been scanned as IDENTIFIER, NEQ, NUMBER and evaluated to True.
C19_WitnessTwoChar ==
    /\ pc = "returned"
    /\ check = <<"a">> \o OpNEQ \o One
    /\ TypesOf(token_list) = <<"IDENTIFIER", "NEQ", "NUMBER", "EOF">>
    /\ result = Ok(PyBoolV(TRUE))

\* 'Pluto.Sign||a' has failed in the evaluator, as 'Pluto.Sign OR a' does.
C19_WitnessError ==
    /\ pc = "returned"
    /\ check = Pluto \o <<".">> \o Sign \o OpBarBar \o <<"a">>
    /\ result.st = "EvaluatorError"

\* The (kind, text) pairs of a token list.
Pairs(toks) == [i \in 1..Len(toks) |-> <<toks[i].type, toks[i].value>>]

\* The number of characters of text before the given line.
RECURSIVE LineStart(_, _)
LineStart(text, line) ==
    IF line <= 1 THEN 0
    ELSE LET first == IndexOf(text, NEWLINE)
         IN  first + LineStart(SubSeq(text, first + 1, Len(text)), line - 1)

\* The numbers of characters before which something may be inserted between
\* tokens: before every token, and at the end of the text.
TokenBoundaries(text, toks) ==
    {LineStart(text, toks[i].line) + toks[i].column : i \in 1..(Len(toks) - 1)}
    \cup {Len(text)}

InsertAt(text, k, piece) == SubSeq(text, 1, k) \o piece \o SubSeq(text, k + 1, Len(text))

\* Blanks, and comments running to the end of their line.
Blanks == {<<" ">>, <<TAB>>, <<NEWLINE>>, <<" ", NEWLINE, " ">>}
Comments == {<<"#", "a", NEWLINE>>, <<"#", NEWLINE>>, <<" ", "#", " ", "1", "#", NEWLINE>>}

\* C20: a blank or a comment line inserted between two tokens leaves the
\* (kind, text) pairs as they are, tokens after the comment included; no
\* token other than a STRING holds a blank or a '#'.
C20_BlanksAndComments ==
    (TokensReturned /\ (~HasQuote(check) \/ CountChar(check, NEWLINE) = 0)) =>
        /\ \A k \in TokenBoundaries(check, token_list) :
               \A piece \in Blanks \cup Comments :
                   Pairs(TokensOf(Tokenize(InsertAt(check, k, piece)))) = Pairs(token_list)
        /\ Pairs(TokensOf(Tokenize(check \o <<"#", "a">>))) = Pairs(token_list)
        /\ \A i \in 1..Len(token_list) :
               token_list[i].type # "STRING" =>
                   \A j \in 1..Len(token_list[i].value) :
                       ~IsSpace(token_list[i].value[j]) /\ token_list[i].value[j] # "#"

\* 'a' after a comment line, and before a comment, has been returned as the
\* one IDENTIFIER before EOF.
C20_Witness ==
    /\ TokensReturned
    /\ check \in {<<"#", "a", NEWLINE, "a">>, <<"a", " ", "#", "a">>}
    /\ Pairs(token_list) = <<<<"IDENTIFIER", <<"a">>>>, <<"EOF", <<>>>>>>

\* 'a<=a' has been returned, between whose three tokens blanks and comments
\* are then inserted.
C20_WitnessAdjacent ==
    /\ TokensReturned
    /\ check = <<"a", "<", "=", "a">>
    /\ TokenBoundaries(check, token_list) = {0, 1, 3, 4}

\* The index in the text of the character at a 1-based line and 0-based
\* column.
IndexAt(text, line, column) == LineStart(text, line) + column + 1

\* The index of the last character of token t when its first is at index
\* first: the text there is the token's text, or the literal that decodes to
\* a STRING token's value; 0 when the text there is not the token.
LastIndex(text, t, first) ==
    IF first < 1 \/ first > Len(text) THEN 0
    ELSE IF t.type = "STRING"
    THEN IF text[first] \notin {DQUOTE, SQUOTE} THEN 0
         ELSE LET close == ClosingQuote(text, first + 1, text[first])
              IN  IF close # 0
                     /\ Decoded(SubSeq(text, first + 1, close - 1), text[first])
                            = [ok |-> TRUE, str |-> t.value]
                  THEN close ELSE 0
    ELSE IF first + Len(t.value) - 1 <= Len(text)
            /\ SubSeq(text, first, first + Len(t.value) - 1) = t.value
    THEN first + Len(t.value) - 1
    ELSE 0

\* From token i on, every token lies at the index its line and column give,
\* after the end of the token before it (index done) and with only blanks
\* and comments in between; EOF lies just past the last character.
RECURSIVE PositionsFrom(_, _, _, _)
PositionsFrom(text, toks, i, done) ==
    LET t == toks[i]
        first == IndexAt(text, t.line, t.column)
    IN  /\ t.line \in 1..(1 + CountChar(text, NEWLINE))
        /\ t.column >= 0
        /\ first > done
        /\ first <= Len(text) + 1
        /\ Significant(SubSeq(text, done + 1, first - 1), FALSE) = <<>>
        /\ IF t.type = "EOF" THEN first = Len(text) + 1
           ELSE /\ LastIndex(text, t, first) # 0
                /\ PositionsFrom(text, toks, i + 1, LastIndex(text, t, first))

\* C21: every token returned, STRING tokens and the final EOF included,
\* records the 1-based line and the 0-based column of its first character
\* (EOF: of the position just past the last character).
C21_TokenPositions ==
    TokensReturned => PositionsFrom(check, token_list, 1, 0)

\* A STRING token holds a newline.
NewlineInString ==
    \E i \in 1..Len(token_list) :
        token_list[i].type = "STRING" /\ CountChar(token_list[i].value, NEWLINE) > 0

\* The text ends inside a comment: mode is "code", "comment" or the quote of
\* the literal the scan is in.
RECURSIVE EndsInComment(_, _, _)
EndsInComment(text, i, mode) ==
    IF i > Len(text) THEN mode = "comment"
    ELSE IF mode = "comment"
    THEN EndsInComment(text, i + 1, IF text[i] = NEWLINE THEN "code" ELSE "comment")
    ELSE IF mode = "code"
    THEN EndsInComment(text, i + 1,
                       IF text[i] = "#" THEN "comment"
                       ELSE IF text[i] \in {DQUOTE, SQUOTE} THEN text[i] ELSE "code")
    ELSE IF text[i] = BACKSLASH THEN EndsInComment(text, i + 2, mode)
    ELSE EndsInComment(text, i + 1, IF text[i] = mode THEN "code" ELSE mode)

\* The positions are right on every other text.
TokenPositions_OtherTexts ==
    (TokensReturned /\ ~NewlineInString /\ ~EndsInComment(check, 1, "code")) =>
        PositionsFrom(check, token_list, 1, 0)

\* A STRING token that begins on line 1 has been returned with line 2.
C21_Witness ==
    /\ TokensReturned
    /\ check = <<DQUOTE, NEWLINE, DQUOTE>>
    /\ token_list[1].type = "STRING"
    /\ token_list[1].line = 2

\* The EOF of the two-character text 'a#' has been returned with column 3.
C21_WitnessEOF ==
    /\ TokensReturned
    /\ check = <<"a", "#">>
    /\ token_list[2].type = "EOF"
    /\ token_list[2].column = 3

\* The 'a' on the second line has been returned with line 2, column 0.
C21_WitnessSecondLine ==
    /\ TokensReturned
    /\ check = <<"a", NEWLINE, "a">>
    /\ token_list[2] = Token("IDENTIFIER", <<"a">>, 2, 0)
    /\ token_list[3] = Token("EOF", <<>>, 2, 1)

(***************************************************************************)
(* Specification of repeated calls of parse(formula)                       *)
(***************************************************************************)
\* parse(formula) called when an earlier call has left the token list
\* `earlier` behind in its Parser: that parser.
ParseCall_Reusing(formula, earlier) ==
    AndThen(Tokenize(formula),
            LAMBDA lexed : ParserParse(IF earlier = <<>> THEN lexed.tokens ELSE earlier))

\* parse(formula) called when an earlier call has left the token list
\* `earlier` behind in its Parser: tokenize builds a new Lexer on the text and
\* parse a new Parser on the new tokens, from position 0.
ParseCall(formula, earlier) ==
    AndThen(Tokenize(formula), LAMBDA lexed : ParserParse(lexed.tokens))

RepeatFormulas ==
    TrailingFormulas \cup UnclosedFormulas
    \cup {A.text : A \in Operands} \cup {NotAnd(A, B) : A, B \in Operands}
EarlierFormulas ==
    { <<>>, <<"a">>, <<"(", " ", "a">>, <<"@">>, JoinWords(<<One, OpEQ>>),
      JoinWords(<<Sun \o <<".">> \o Sign, OpEQ, Aries>>) }

RepeatInit ==
    /\ check \in RepeatFormulas
    /\ pc = "first"
    /\ token_list = <<>>
    /\ ast = None
    /\ result = None
    /\ chart_data = <<>>
    /\ stdout = <<>>
    /\ stderr = <<>>
    /\ exit_code = None
    /\ NoCache
    /\ NoScan
    /\ NoWalk

\* ast = parse(check), the first time.
FirstCall ==
    /\ pc = "first"
    /\ ast' = ParseCall(check, token_list)
    /\ token_list' = TokensOf(Tokenize(check))
    /\ pc' = "between"
    /\ UNCHANGED <<check, chart_data, result, stdout, stderr, exit_code>>
    /\ UNCHANGED <<cache_vars, scan_vars, walk_vars>>

\* parse(other) for some other formula, whatever it returns or raises.
OtherCall ==
    /\ pc = "between"
    /\ \E other \in EarlierFormulas : token_list' = TokensOf(Tokenize(other))
    /\ pc' = "again"
    /\ UNCHANGED <<check, chart_data, ast, result, stdout, stderr, exit_code>>
    /\ UNCHANGED <<cache_vars, scan_vars, walk_vars>>

\* result = parse(check), the second time.
SecondCall ==
    /\ pc \in {"between", "again"}
    /\ result' = ParseCall(check, token_list)
    /\ token_list' = TokensOf(Tokenize(check))
    /\ pc' = "done"
    /\ UNCHANGED <<check, chart_data, ast, stdout, stderr, exit_code>>
    /\ UNCHANGED <<cache_vars, scan_vars, walk_vars>>

RepeatNext == FirstCall \/ OtherCall \/ SecondCall

SpecRepeat == RepeatInit /\ [][RepeatNext]_vars

C22_WitnessAst ==
    /\ pc = "done"
    /\ check = JoinWords(<<OpNOT, <<"a">>, OpAND, TrueText>>)
    /\ result.st = "ok"
    /\ result.node = BinaryOp(OpAND, UnaryOp(OpNOT, Identifier(<<"a">>)), BooleanNode(TRUE))

(***************************************************************************)
(* Specification of Evaluator(chart_data).evaluate(ast) on a cached AST    *)
(***************************************************************************)
\* The chart an evaluation that pops the sections it reads would leave.
ChartAfter_Popping(node, chart) ==
    IF chart = <<>> THEN chart ELSE Tail(chart)

\* The AST and the chart after evaluate(node) on chart: no _eval_* method
\* assigns to a field of a node or to an entry of self.chart_data; the three
\* collectors append to a list they create.
AstAfter(node, chart) == node
ChartAfter(node, chart) == chart

ReuseInit ==
    /\ \E in \in EvalInputs : chart_data = in[1] /\ ast = in[2]
    /\ pc = "cached"
    /\ result = None
    /\ check = <<>>
    /\ token_list = <<>>
    /\ stdout = <<>>
    /\ stderr = <<>>
    /\ exit_code = None
    /\ NoCache
    /\ NoScan
    /\ NoWalk

\* result = Evaluator(chart_data).evaluate(ast), once and once more.
EvaluateCached ==
    /\ pc \in {"cached", "once"}
    /\ result' = Evaluate(ast, chart_data)
    /\ ast' = AstAfter(ast, chart_data)
    /\ chart_data' = ChartAfter(ast, chart_data)
    /\ pc' = IF pc = "cached" THEN "once" ELSE "twice"
    /\ UNCHANGED <<check, token_list, stdout, stderr, exit_code>>
    /\ UNCHANGED <<cache_vars, scan_vars, walk_vars>>

ReuseNext == EvaluateCached

SpecReuse == ReuseInit /\ [][ReuseNext]_vars

C23_WitnessError ==
    pc = "twice" /\ result.st = "EvaluatorError" /\ chart_data # <<>>

(***************************************************************************)
(* Specification of evaluate(formula, chart_data) on nested formulas, with *)
(* the interpreter's call stack                                            *)
(***************************************************************************)
MaxDepth == 6         \* nested '(' , NOT and '!' of an input formula
StackFrames == 20     \* frames the interpreter allows (sys.getrecursionlimit(), scaled)
DepthCeiling == 2     \* a ceiling on nesting depth (the specification's 200, scaled)

RecursionError == [st |-> "RecursionError"]

\* Prefixes of at most MaxDepth openers, each with its closer.
Openers == {<<"(">>, OpNOT \o <<" ">>, OpBang}
RECURSIVE Nested(_, _)
Nested(prefix, operand) ==
    IF prefix = <<>> THEN operand
    ELSE Head(prefix) \o Nested(Tail(prefix), operand)
                      \o (IF Head(prefix) = <<"(">> THEN <<")">> ELSE <<>>)
NestedFormulas ==
    {Nested(prefix, operand) : prefix \in SeqsUpTo(Openers, MaxDepth),
                               operand \in {<<"a">>, Pluto \o <<".">> \o Sign}}

\* The frames on the stack when the parser reads the operand of a nested
\* formula: parse and Parser.parse, then _parse_expression, _parse_term,
\* _parse_factor, _parse_comparison and _parse_primary once and once more for
\* every '(' (_parse_primary calls _parse_expression), and _parse_factor once
\* more for every NOT (_parse_factor calls itself).
ParserFrames(toks) ==
    2 + 5 * (1 + CountType(toks, "LPAREN")) + CountType(toks, "NOT")

Greater(a, b) == IF a >= b THEN a ELSE b

\* The frames below _eval_node(node) at its deepest: _eval_node and the
\* _eval_* method it dispatches to, for every level of the AST.
RECURSIVE NodeFrames(_)
NodeFrames(node) ==
    IF node.type = "UNARY_OP" THEN 2 + NodeFrames(node.operand)
    ELSE IF node.type \in {"BINARY_OP", "COMPARISON"}
    THEN 2 + Greater(NodeFrames(node.left), NodeFrames(node.right))
    ELSE IF node.type = "PROPERTY" THEN 2 + NodeFrames(node.object)
    ELSE IF node.type = "LIST" /\ node.children # <<>>
    THEN LET below == {NodeFrames(node.children[i]) : i \in 1..Len(node.children)}
         IN  2 + CHOOSE m \in below : \A f \in below : m >= f
    ELSE 2

\* evaluate and Evaluator.evaluate, then the nodes.
EvaluatorFrames(node) == 2 + NodeFrames(node)

\* evaluate(formula, chart) on a stack of StackFrames frames: a call that
\* would need one more raises RecursionError where it stands; nothing in the
\* parser or the evaluator counts depth.
EvaluateOnStack(formula, chart) ==
    AndThen(Tokenize(formula), LAMBDA lexed :
        IF ParserFrames(lexed.tokens) > StackFrames THEN RecursionError
        ELSE AndThen(ParserParse(lexed.tokens), LAMBDA parsed :
                 IF EvaluatorFrames(parsed.node) > StackFrames THEN RecursionError
                 ELSE Evaluate(parsed.node, chart)))

DepthInit ==
    /\ check \in NestedFormulas
    /\ chart_data \in SampleCharts
    /\ pc = "call"
    /\ token_list = <<>>
    /\ ast = None
    /\ result = None
    /\ stdout = <<>>
    /\ stderr = <<>>
    /\ exit_code = None
    /\ NoCache
    /\ NoScan
    /\ NoWalk

EvaluateNested ==
    /\ pc = "call"
    /\ token_list' = TokensOf(Tokenize(check))
    /\ result' = EvaluateOnStack(check, chart_data)
    /\ pc' = "returned"
    /\ UNCHANGED <<check, chart_data, ast, stdout, stderr, exit_code>>
    /\ UNCHANGED <<cache_vars, scan_vars, walk_vars>>

DepthNext == EvaluateNested

SpecDepth == DepthInit /\ [][DepthNext]_vars

\* The nesting depth of a nested formula: its '(' and its NOT.
NestingDepth(toks) == CountType(toks, "LPAREN") + CountType(toks, "NOT")

\* C24: a formula nested deeper than the ceiling is reported as ParserError
\* or EvaluatorError.
C24_DepthLimit ==
    (pc = "returned" /\ NestingDepth(token_list) > DepthCeiling) =>
        result.st \in {"ParserError", "EvaluatorError"}

\* Below the stack's size the depth has no effect on the outcome, and above
\* it the call ends in RecursionError.
DepthUnlimited ==
    pc = "returned" =>
        IF ParserFrames(token_list) > StackFrames THEN result = RecursionError
        ELSE result.st # "ParserError"

\* Parentheses nested beyond the ceiling have exhausted the stack.
C24_Witness ==
    /\ pc = "returned"
    /\ NestingDepth(token_list) > DepthCeiling
    /\ CountType(token_list, "LPAREN") = NestingDepth(token_list)
    /\ result = RecursionError

\* NOT nested beyond the ceiling has been evaluated to a value.
C24_WitnessValue ==
    /\ pc = "returned"
    /\ NestingDepth(token_list) = MaxDepth
    /\ CountType(token_list, "NOT") = MaxDepth
    /\ result.st = "ok"

(***************************************************************************)
(* Specification of JsonCache.set called by two threads                    *)
(* (src/input_pipeline/cache.py)                                           *)
(* An entry is <<key, value>> with the key already normalised; a document  *)
(* is [items, complete]: the entries written to a file and whether the     *)
(* file was written to its end and closed.                                 *)
(***************************************************************************)
Threads == {"t1", "t2"}
KeyOf(t) == IF t = "t1" THEN "moscow" ELSE "paris"
ValueOf(t) == IF t = "t1" THEN "v1" ELSE "v2"
EntryOf(t) == <<KeyOf(t), ValueOf(t)>>
OldEntry == <<"london", "v0">>

Document(items, complete) == [items |-> items, complete |-> complete]

\* self._data[normalized_key] = value
DictSet(d, key, value) == {e \in d : e[1] # key} \cup {<<key, value>>}

\* JsonCache.__init__ and _load: the entries of the file, none when the file
\* does not exist; every thread is about to call set.
CacheInit ==
    /\ path_file \in {None, Document({}, TRUE), Document({OldEntry}, TRUE)}
    /\ cache_data = IF path_file = None THEN {} ELSE path_file.items
    /\ temp_files = [t \in Threads |-> None]
    /\ thread = [t \in Threads |-> [pc |-> "set", used |-> 0, written |-> {}]]
    /\ global_cache = None
    /\ created = {}
    /\ pc = "threads"
    /\ chart_data = <<>>
    /\ ast = None
    /\ result = None
    /\ check = <<>>
    /\ token_list = <<>>
    /\ stdout = <<>>
    /\ stderr = <<>>
    /\ exit_code = None
    /\ NoScan
    /\ NoWalk

At(t, label) == thread[t].pc = label
Goto(t, label) == thread' = [thread EXCEPT ![t].pc = label]
FormulaVars ==
    <<pc, chart_data, ast, result, check, token_list, stdout, stderr, exit_code, scan_vars,
      walk_vars>>

\* set: self._data[normalized_key] = value
SetItem(t) ==
    /\ At(t, "set")
    /\ cache_data' = DictSet(cache_data, KeyOf(t), ValueOf(t))
    /\ Goto(t, "mkstemp")
    /\ UNCHANGED <<path_file, temp_files, global_cache, created, FormulaVars>>

\* _write_atomic: tempfile.mkstemp and open(temp_fd, 'w')
Mkstemp(t) ==
    /\ At(t, "mkstemp")
    /\ temp_files' = [temp_files EXCEPT ![t] = Document({}, FALSE)]
    /\ Goto(t, "iterate")
    /\ UNCHANGED <<cache_data, path_file, global_cache, created, FormulaVars>>

\* json.dump begins to iterate over self._data.items(): the iterator keeps
\* the size of the dict.
DumpStart(t) ==
    /\ At(t, "iterate")
    /\ thread' = [thread EXCEPT ![t] = [pc |-> "dump", used |-> Cardinality(cache_data),
                                       written |-> {}]]
    /\ UNCHANGED <<cache_data, path_file, temp_files, global_cache, created, FormulaVars>>

\* One step of the iteration: RuntimeError when the dict has changed size,
\* the end of the with block when every entry is written, and else one more
\* entry written to the temporary file.
DumpItem(t) ==
    /\ At(t, "dump")
    /\ IF Cardinality(cache_data) # thread[t].used
       THEN /\ Goto(t, "unlink")
            /\ UNCHANGED temp_files
       ELSE IF cache_data \subseteq thread[t].written
       THEN /\ temp_files' = [temp_files EXCEPT ![t].complete = TRUE]
            /\ Goto(t, "replace")
       ELSE \E e \in cache_data \ thread[t].written :
               /\ temp_files' = [temp_files EXCEPT ![t].items = @ \cup {e}]
               /\ thread' = [thread EXCEPT ![t].written = @ \cup {e}]
    /\ UNCHANGED <<cache_data, path_file, global_cache, created, FormulaVars>>

\* Path(temp_path).replace(self.path)
Replace(t) ==
    /\ At(t, "replace")
    /\ path_file' = temp_files[t]
    /\ temp_files' = [temp_files EXCEPT ![t] = None]
    /\ Goto(t, "done")
    /\ UNCHANGED <<cache_data, global_cache, created, FormulaVars>>

\* The handlers of _write_atomic: Path(temp_path).unlink() and the warning.
Unlink(t) ==
    /\ At(t, "unlink")
    /\ temp_files' = [temp_files EXCEPT ![t] = None]
    /\ Goto(t, "done")
    /\ UNCHANGED <<cache_data, path_file, global_cache, created, FormulaVars>>

CacheNext ==
    \E t \in Threads :
        \/ SetItem(t)
        \/ Mkstemp(t)
        \/ DumpStart(t)
        \/ DumpItem(t)
        \/ Replace(t)
        \/ Unlink(t)

SpecCache == CacheInit /\ [][CacheNext]_vars

BothReturned == \A t \in Threads : At(t, "done")

\* The file at the path is absent or a complete document.
FileIsWhole == path_file = None \/ path_file.complete

\* C25: the file at the cache path is at every moment absent or a complete
\* document, and when both calls of set have returned the cache in memory
\* and the file both hold both entries.
C25_ThreadSafeSet ==
    /\ FileIsWhole
    /\ BothReturned =>
          /\ \A t \in Threads : EntryOf(t) \in cache_data
          /\ path_file # None
          /\ \A t \in Threads : EntryOf(t) \in path_file.items

\* What holds: the file is whole and holds entries of the cache only, and
\* after both calls the cache in memory holds both entries and the file at
\* least one of them.
AtomicWrites ==
    /\ FileIsWhole
    /\ path_file # None => path_file.items \subseteq cache_data
    /\ BothReturned =>
          /\ \A t \in Threads : EntryOf(t) \in cache_data
          /\ path_file # None
          /\ \E t \in Threads : EntryOf(t) \in path_file.items

\* Both calls have returned and the file lacks the entry of one of them.
C25_Witness ==
    /\ BothReturned
    /\ path_file # None
    /\ path_file.complete
    /\ \E t \in Threads : EntryOf(t) \notin path_file.items

\* One call has failed to write (the dict changed size while it was dumped)
\* and both have returned.
C25_WitnessRuntimeError ==
    /\ BothReturned
    /\ \E t \in Threads : thread[t].written # cache_data /\ thread[t].used < Cardinality(cache_data)

(***************************************************************************)
(* Specification of get_global_cache called by two threads, and            *)
(* reset_global_cache (src/input_pipeline/__init__.py)                     *)
(* A JsonCache instance is named after the thread that constructed it.     *)
(***************************************************************************)
Resetter == "reset"

GlobalInit ==
    /\ global_cache = None
    /\ created = {}
    /\ thread = [t \in Threads \cup {Resetter} |->
                    IF t = Resetter THEN [pc |-> "reset", instance |-> None, returned |-> None]
                    ELSE [pc |-> "test", instance |-> None, returned |-> None]]
    /\ cache_data = {}
    /\ path_file = None
    /\ temp_files = <<>>
    /\ pc = "threads"
    /\ chart_data = <<>>
    /\ ast = None
    /\ result = None
    /\ check = <<>>
    /\ token_list = <<>>
    /\ stdout = <<>>
    /\ stderr = <<>>
    /\ exit_code = None
    /\ NoScan
    /\ NoWalk

\* if _global_cache is None:
TestNone(t) ==
    /\ At(t, "test")
    /\ Goto(t, IF global_cache = None THEN "construct" ELSE "return")
    /\ UNCHANGED <<global_cache, created, cache_data, path_file, temp_files, FormulaVars>>

\* JsonCache(): a new instance
Construct(t) ==
    /\ At(t, "construct")
    /\ thread' = [thread EXCEPT ![t].pc = "store", ![t].instance = [instance |-> t]]
    /\ created' = created \cup {[instance |-> t]}
    /\ UNCHANGED <<global_cache, cache_data, path_file, temp_files, FormulaVars>>

\* _global_cache = <the new instance>
Store(t) ==
    /\ At(t, "store")
    /\ global_cache' = thread[t].instance
    /\ Goto(t, "return")
    /\ UNCHANGED <<created, cache_data, path_file, temp_files, FormulaVars>>

\* return _global_cache
Return(t) ==
    /\ At(t, "return")
    /\ thread' = [thread EXCEPT ![t].pc = "done", ![t].returned = global_cache]
    /\ UNCHANGED <<global_cache, created, cache_data, path_file, temp_files, FormulaVars>>

\* reset_global_cache(): _global_cache = None; the instances and the calls
\* counted from here on are those after this reset.
ResetGlobalCache ==
    /\ At(Resetter, "reset")
    /\ global_cache' = None
    /\ created' = {}
    /\ thread' = [t \in DOMAIN thread |->
                     IF t = Resetter THEN [thread[t] EXCEPT !.pc = "done"]
                     ELSE [thread[t] EXCEPT !.returned = None]]
    /\ UNCHANGED <<cache_data, path_file, temp_files, FormulaVars>>

GlobalNext ==
    \/ \E t \in Threads : TestNone(t) \/ Construct(t) \/ Store(t) \/ Return(t)
    \/ ResetGlobalCache

SpecGlobal == GlobalInit /\ [][GlobalNext]_vars

Returned == {thread[t].returned : t \in Threads} \ {None}

\* C26: at most one JsonCache instance is created between two resets, and
\* every call returns the same instance.
C26_OneInstance ==
    /\ Cardinality(created) <= 1
    /\ Cardinality(Returned) <= 1

\* What holds: a call never returns None while no reset runs, and returns an
\* instance some caller constructed.
ReturnsAnInstance ==
    \A t \in Threads :
        At(t, "done") =>
            \/ thread[t].returned \in {[instance |-> u] : u \in Threads}
            \/ thread[Resetter].pc = "done"

\* Both callers have found _global_cache None, each has constructed an
\* instance, and they have returned different instances, with no reset.
C26_Witness ==
    /\ \A t \in Threads : At(t, "done")
    /\ At(Resetter, "reset")
    /\ Cardinality(created) = 2
    /\ Cardinality(Returned) = 2

\* Both callers have returned the one instance that was constructed.
C26_WitnessShared ==
    /\ \A t \in Threads : At(t, "done")
    /\ At(Resetter, "reset")
    /\ Cardinality(created) = 1
    /\ Cardinality(Returned) = 1

(***************************************************************************)
(* Claims about the parser's position (checked under SpecParse)            *)
(***************************************************************************)
\* The outcome r of a parsing method entered at position start: on success
\* the position has moved forward and stands at or before the EOF token, and
\* the tokens after the one it stands on had no part in the outcome; a
\* ParserError carries a token at or after start.
MovesForward(toks, start, r) ==
    /\ r.st = "ok" =>
          /\ r.pos > start
          /\ r.pos <= Len(toks) - 1
          /\ ParseExpression(SubSeq(toks, 1, r.pos + 1), start) = r
    /\ r.st = "ParserError" =>
          /\ r.token # NoToken
          /\ \E i \in (start + 1)..Len(toks) : toks[i] = r.token

\* C27: on a token list of the lexer the parser's position only moves
\* forward and never past the EOF token, one token of lookahead decides, the
\* tokenless errors 'unexpected end of formula' and 'unexpected end of list'
\* do not occur, and every ParserError but 'empty formula' carries its token.
C27_NoBacktracking ==
    ParseReturned =>
        /\ result.st = "ok" =>
               /\ result.pos = Len(token_list) - 1
               /\ Current(token_list, result.pos).type = "EOF"
        /\ result.st = "ParserError" =>
               IF result.message.text = "empty formula"
               THEN result.token = NoToken /\ OnlyEOF(token_list)
               ELSE /\ result.token # NoToken
                    /\ \E i \in 1..Len(token_list) : token_list[i] = result.token
                    /\ result.message.text \notin {"unexpected end of formula",
                                                   "unexpected end of list"}
        /\ \A start \in 0..(Len(token_list) - 1) :
               MovesForward(token_list, start, ParseExpression(token_list, start))

\* '( a' has been rejected at its EOF token, which was not consumed.
C27_Witness ==
    /\ ParseReturned
    /\ check = <<"(", " ", "a">>
    /\ result.st = "ParserError"
    /\ result.token.type = "EOF"
    /\ result.token = token_list[Len(token_list)]

\* A formula has been accepted with the position on the EOF token.
C27_WitnessAccepted ==
    /\ ParseReturned
    /\ check = JoinWords(<<OpNOT, <<"a">>, OpAND, TrueText>>)
    /\ result.st = "ok"
    /\ result.pos = 4
    /\ Len(token_list) = 5

(***************************************************************************)
(* Property objects of parsed formulas: evaluate(formula, chart) on        *)
(* property accesses written as text                                       *)
(***************************************************************************)
ObjectNameChars == {"a", "_", "1", E_ACUTE}
ObjectNames ==
    {n \in SeqsUpTo(ObjectNameChars, 2) : n # <<>>}
    \cup {Sun, Moon, Pluto, Seven, <<"1", "_", "0">>, <<"_", "1", "0">>}
ObjectAccesses == {n \o <<".">> \o p : n \in ObjectNames, p \in {Sign, Ruler}}
ObjectFormulas ==
    ObjectAccesses
    \cup {JoinWords(<<OpNOT, a>>) : a \in ObjectAccesses}
    \cup {JoinWords(<<a, OpEQ, Aries>>) : a \in ObjectAccesses}

ObjectCharts ==
    {ChartOf(ps, hs, Absent) :
        ps \in Section("planets", {d \in PlanetsSections : Len(d) <= 1}) \cup {Absent},
        hs \in Section("houses", HousesSections) \cup {Absent}}

ObjectInit ==
    /\ check \in ObjectFormulas
    /\ chart_data \in ObjectCharts
    /\ pc = "call"
    /\ token_list = <<>>
    /\ ast = None
    /\ result = None
    /\ stdout = <<>>
    /\ stderr = <<>>
    /\ exit_code = None
    /\ NoCache
    /\ NoScan
    /\ NoWalk

\* result = evaluate(check, chart_data); ast keeps what parse returned.
EvaluateAccess ==
    /\ pc = "call"
    /\ token_list' = TokensOf(Tokenize(check))
    /\ ast' = ParseFormula(check)
    /\ result' = EvaluateFormula(check, chart_data)
    /\ pc' = "returned"
    /\ UNCHANGED <<check, chart_data, stdout, stderr, exit_code>>
    /\ UNCHANGED <<cache_vars, scan_vars, walk_vars>>

ObjectNext == EvaluateAccess

SpecObject == ObjectInit /\ [][ObjectNext]_vars

\* The Property nodes of an AST.
RECURSIVE Properties(_)
Properties(node) ==
    IF node.type = "PROPERTY" THEN {node} \cup Properties(node.object)
    ELSE IF node.type = "UNARY_OP" THEN Properties(node.operand)
    ELSE IF node.type \in {"BINARY_OP", "COMPARISON"}
    THEN Properties(node.left) \cup Properties(node.right)
    ELSE IF node.type = "LIST"
    THEN UNION {Properties(node.children[i]) : i \in 1..Len(node.children)}
    ELSE {}

IsPlanet(name, chart) ==
    DictHas(chart, "planets") /\ DictHas(DictGet(chart, "planets"), name)

\* The chart with its houses section replaced by hs (absent when hs is).
WithHouses(chart, hs) ==
    SelectSeq(chart, LAMBDA kv : kv.key # "houses") \o hs

\* C28: in the AST of a formula text the object of every Property node is an
\* identifier that starts with a letter or an underscore and that int()
\* rejects, and a Property whose object is no key of chart.planets evaluates
\* to EvaluatorError 'object not found' whatever chart.houses holds.
C28_ObjectsAreNotHouses ==
    (pc = "returned" /\ ast.st = "ok") =>
        \A p \in Properties(ast.node) :
            /\ p.object.type = "IDENTIFIER"
            /\ p.object.value # <<>>
            /\ IsAlpha(p.object.value[1]) \/ p.object.value[1] = "_"
            /\ ~PyIntOfStr(p.object.value).ok
            /\ ~IsPlanet(p.object.value, chart_data) =>
                   /\ EvalNode(p, chart_data) = ObjectNotFound(p.object.value, chart_data)
                   /\ result = ObjectNotFound(p.object.value, chart_data)
                   /\ \A hs \in Section("houses", HousesSections) \cup {Absent} :
                          EvaluateFormula(check, WithHouses(chart_data, hs)) = result

\* '_1.Sign' has been evaluated on a chart whose house 1 has a Sign and
\* whose planets do not include '_1': object not found.
C28_Witness ==
    /\ pc = "returned"
    /\ check = <<"_", "1", ".">> \o Sign
    /\ ast.st = "ok"
    /\ ast.node = Property(Identifier(<<"_", "1">>), Sign)
    /\ DictHas(chart_data, "houses")
    /\ DictHas(DictGet(chart_data, "houses"), 1)
    /\ DictHas(DictGet(DictGet(chart_data, "houses"), 1), Sign)
    /\ result = ObjectNotFound(<<"_", "1">>, chart_data)

\* '1.Sign' has no AST: a name that starts with a digit is not an identifier.
C28_WitnessDigit ==
    /\ pc = "returned"
    /\ check = One \o <<".">> \o Sign
    /\ ast.st # "ok"
    /\ DictHas(chart_data, "houses")

(***************************************************************************)
(* tokenize step by step: one action per iteration of the main loop and of *)
(* each sub-scanner loop.  frame.iterations counts the iterations of the   *)
(* main loop and frame.entered_at is the position the last one began at.   *)
(***************************************************************************)
ScanTexts ==
    SeqsUpTo(StringChars, MaxTextLen - 1) \cup SeqsUpTo(OperatorChars, MaxTextLen - 1)
    \cup SeqsUpTo(NumberChars, MaxTextLen - 1) \cup SeqsUpTo(CommentChars, MaxTextLen - 1)
    \cup WordTexts

NoLocals(iterations, entered_at) ==
    [iterations |-> iterations, entered_at |-> entered_at,
     start_column |-> 0, value |-> <<>>, quote |-> ""]

\* Lexer(text) and the first line of tokenize
ScanInit ==
    /\ check \in ScanTexts
    /\ pc = "tokenize"
    /\ lexer = LexerInit
    /\ frame = NoLocals(0, 0)
    /\ token_list = <<>>
    /\ ast = None
    /\ result = None
    /\ chart_data = <<>>
    /\ stdout = <<>>
    /\ stderr = <<>>
    /\ exit_code = None
    /\ NoCache
    /\ NoWalk

ScanUnchanged ==
    UNCHANGED <<chart_data, ast, check, stdout, stderr, exit_code, cache_vars, walk_vars>>

\* tokens.append(token) on the return of a sub-scanner, back to the loop test
Emit(type, value, lx) ==
    /\ token_list' = Append(token_list, Token(type, value, lx.line, frame.start_column))
    /\ lexer' = lx
    /\ frame' = NoLocals(frame.iterations, frame.entered_at)
    /\ pc' = "tokenize"
    /\ UNCHANGED result

\* raise LexerError(...)
Raise(error) ==
    /\ result' = error
    /\ pc' = "raised"
    /\ UNCHANGED <<token_list, lexer, frame>>

\* The loop test fails: the EOF token is appended and the list returned.
LoopExit ==
    /\ pc = "tokenize"
    /\ CurrentChar(check, lexer) = NoChar
    /\ token_list' = Append(token_list, Token("EOF", <<>>, lexer.line, lexer.column))
    /\ pc' = "parse"
    /\ UNCHANGED <<result, lexer, frame>>
    /\ ScanUnchanged

\* An iteration of the main loop that calls a sub-scanner, up to the
\* sub-scanner's loop test (read_string has skipped the opening quote).
EnterScanner ==
    /\ pc = "tokenize"
    /\ LET c == CurrentChar(check, lexer)
           here == [NoLocals(frame.iterations + 1, lexer.pos)
                        EXCEPT !.start_column = lexer.column]
       IN  /\ c # NoChar
           /\ \/ /\ IsSpace(c)
                 /\ pc' = "skip_whitespace" /\ frame' = here /\ UNCHANGED lexer
              \/ /\ ~IsSpace(c) /\ c = "#"
                 /\ pc' = "skip_comment" /\ frame' = here /\ UNCHANGED lexer
              \/ /\ ~IsSpace(c) /\ c # "#" /\ IsDigit(c)
                 /\ pc' = "read_number" /\ frame' = here /\ UNCHANGED lexer
              \/ /\ ~IsSpace(c) /\ ~IsDigit(c) /\ c \in {DQUOTE, SQUOTE}
                 /\ pc' = "read_string"
                 /\ frame' = [here EXCEPT !.quote = c]
                 /\ lexer' = Advance(check, lexer)
              \/ /\ ~IsSpace(c) /\ ~IsDigit(c) /\ c \notin {"#", DQUOTE, SQUOTE}
                 /\ IsAlpha(c) \/ c = "_"
                 /\ pc' = "read_identifier" /\ frame' = here /\ UNCHANGED lexer
    /\ UNCHANGED <<token_list, result>>
    /\ ScanUnchanged

ScannedElsewhere(c) ==
    IsSpace(c) \/ c = "#" \/ IsDigit(c) \/ c \in {DQUOTE, SQUOTE} \/ IsAlpha(c) \/ c = "_"

\* An iteration of the main loop that reads an operator or a delimiter, or
\* raises on an unknown character.
ScanOperator ==
    /\ pc = "tokenize"
    /\ LET c == CurrentChar(check, lexer)
           two_char == IF Peek(check, lexer) = NoChar THEN <<c>>
                       ELSE <<c, Peek(check, lexer)>>
       IN  /\ c # NoChar
           /\ ~ScannedElsewhere(c)
           /\ IF TwoCharType(two_char) # ""
              THEN /\ lexer' = Advance(check, Advance(check, lexer))
                   /\ token_list' = Append(token_list, Token(TwoCharType(two_char), two_char,
                                                             lexer.line, lexer.column))
                   /\ frame' = NoLocals(frame.iterations + 1, lexer.pos)
                   /\ UNCHANGED <<pc, result>>
              ELSE IF SingleCharType(c) # ""
              THEN /\ lexer' = Advance(check, lexer)
                   /\ token_list' = Append(token_list, Token(SingleCharType(c), <<c>>,
                                                             lexer.line, lexer.column))
                   /\ frame' = NoLocals(frame.iterations + 1, lexer.pos)
                   /\ UNCHANGED <<pc, result>>
              ELSE /\ result' = LexerError("unknown character", lexer.line, lexer.column)
                   /\ pc' = "raised"
                   /\ frame' = NoLocals(frame.iterations + 1, lexer.pos)
                   /\ UNCHANGED <<token_list, lexer>>
    /\ ScanUnchanged

\* skip_whitespace whose loop does not advance over a newline.
SkipWhitespaceIteration_Stalling ==
    /\ pc = "skip_whitespace"
    /\ LET c == CurrentChar(check, lexer) IN
       IF c # NoChar /\ IsSpace(c)
       THEN /\ lexer' = IF c = NEWLINE THEN lexer ELSE Advance(check, lexer)
            /\ UNCHANGED pc
       ELSE /\ pc' = "tokenize"
            /\ UNCHANGED lexer
    /\ UNCHANGED <<token_list, result, frame>>
    /\ ScanUnchanged

\* skip_whitespace: one test of its loop, with the iteration or the return
SkipWhitespaceIteration ==
    /\ pc = "skip_whitespace"
    /\ LET c == CurrentChar(check, lexer) IN
       IF c # NoChar /\ IsSpace(c)
       THEN /\ lexer' = Advance(check, lexer)
            /\ UNCHANGED pc
       ELSE /\ pc' = "tokenize"
            /\ UNCHANGED lexer
    /\ UNCHANGED <<token_list, result, frame>>
    /\ ScanUnchanged

\* skip_comment: one test of its loop, with the iteration, or the advance
\* after the loop and the return
SkipCommentIteration ==
    /\ pc = "skip_comment"
    /\ LET c == CurrentChar(check, lexer) IN
       IF c # NoChar /\ c # NEWLINE
       THEN /\ lexer' = Advance(check, lexer)
            /\ UNCHANGED pc
       ELSE /\ lexer' = Advance(check, lexer)
            /\ pc' = "tokenize"
    /\ UNCHANGED <<token_list, result, frame>>
    /\ ScanUnchanged

\* read_number: one test of the integer loop, with the iteration, the step
\* over the decimal point, or the return
ReadNumberIteration ==
    /\ pc = "read_number"
    /\ LET c == CurrentChar(check, lexer) IN
       IF c # NoChar /\ IsDigit(c)
       THEN /\ lexer' = Advance(check, lexer)
            /\ frame' = [frame EXCEPT !.value = Append(@, c)]
            /\ UNCHANGED <<pc, token_list, result>>
       ELSE IF c = "." /\ Peek(check, lexer) # NoChar /\ IsDigit(Peek(check, lexer))
       THEN /\ lexer' = Advance(check, lexer)
            /\ frame' = [frame EXCEPT !.value = Append(@, c)]
            /\ pc' = "read_fraction"
            /\ UNCHANGED <<token_list, result>>
       ELSE Emit("NUMBER", frame.value, lexer)
    /\ ScanUnchanged

\* read_number: one test of the fraction loop, with the iteration or the return
ReadFractionIteration ==
    /\ pc = "read_fraction"
    /\ LET c == CurrentChar(check, lexer) IN
       IF c # NoChar /\ IsDigit(c)
       THEN /\ lexer' = Advance(check, lexer)
            /\ frame' = [frame EXCEPT !.value = Append(@, c)]
            /\ UNCHANGED <<pc, token_list, result>>
       ELSE Emit("NUMBER", frame.value, lexer)
    /\ ScanUnchanged

\* read_string: one test of its loop, with the iteration (one character or
\* one escape sequence), or the closing quote and the return
ReadStringIteration ==
    /\ pc = "read_string"
    /\ LET c == CurrentChar(check, lexer)
           escaped == Advance(check, lexer)
           e == CurrentChar(check, escaped)
       IN  IF c # NoChar /\ c # frame.quote
           THEN IF c = BACKSLASH
                THEN IF e \in {BACKSLASH, frame.quote, "n", "t"}
                     THEN /\ lexer' = Advance(check, escaped)
                          /\ frame' = [frame EXCEPT !.value = Append(@, Unescape(e))]
                          /\ UNCHANGED <<pc, token_list, result>>
                     ELSE /\ result' = LexerError("unknown escape sequence",
                                                  escaped.line, escaped.column)
                          /\ lexer' = escaped
                          /\ pc' = "raised"
                          /\ UNCHANGED <<token_list, frame>>
                ELSE /\ lexer' = Advance(check, lexer)
                     /\ frame' = [frame EXCEPT !.value = Append(@, c)]
                     /\ UNCHANGED <<pc, token_list, result>>
           ELSE IF c # frame.quote
           THEN Raise(LexerError("unterminated string", lexer.line, lexer.column))
           ELSE Emit("STRING", frame.value, Advance(check, lexer))
    /\ ScanUnchanged

\* read_identifier: one test of its loop, with the iteration or the return
ReadIdentifierIteration ==
    /\ pc = "read_identifier"
    /\ LET c == CurrentChar(check, lexer) IN
       IF c # NoChar /\ (IsAlnum(c) \/ c = "_")
       THEN /\ lexer' = Advance(check, lexer)
            /\ frame' = [frame EXCEPT !.value = Append(@, c)]
            /\ UNCHANGED <<pc, token_list, result>>
       ELSE Emit(KeywordType(frame.value), frame.value, lexer)
    /\ ScanUnchanged

ScanNext ==
    \/ LoopExit
    \/ EnterScanner
    \/ ScanOperator
    \/ SkipWhitespaceIteration
    \/ SkipCommentIteration
    \/ ReadNumberIteration
    \/ ReadFractionIteration
    \/ ReadStringIteration
    \/ ReadIdentifierIteration

\* The interpreter runs tokenize to its end: a step that is possible is taken.
SpecScan == ScanInit /\ [][ScanNext]_vars /\ WF_vars(ScanNext)

SubScanners ==
    {"skip_whitespace", "skip_comment", "read_number", "read_fraction", "read_string",
     "read_identifier"}

\* tokenize has returned its list, which ends with EOF, or raised LexerError;
\* the outcome is the one of Tokenize.
Finished ==
    \/ /\ pc = "parse"
       /\ token_list # <<>>
       /\ token_list[Len(token_list)].type = "EOF"
       /\ Tokenize(check) = [st |-> "ok", tokens |-> token_list]
    \/ /\ pc = "raised"
       /\ result.st = "LexerError"
       /\ Tokenize(check) = result

\* The main loop has begun at most len(text) iterations, and each one that
\* has come back to the loop test has advanced the position.
MainLoopAdvances ==
    /\ frame.iterations <= Len(check)
    /\ pc = "tokenize" /\ frame.iterations > 0 => lexer.pos > frame.entered_at
    /\ pc \in {"parse", "raised"} => Finished

\* A step that stays in a sub-scanner's loop is one iteration of it.
LoopIterationAdvances ==
    (pc \in SubScanners /\ pc' = pc) => lexer'.pos > lexer.pos

\* C29: tokenize terminates: every iteration of the main loop and of each
\* sub-scanner loop advances the position by at least one character, the
\* main loop makes at most len(text) iterations, and the run ends with the
\* EOF token appended or with a LexerError.
C29_TokenizeTerminates ==
    /\ []MainLoopAdvances
    /\ [][LoopIterationAdvances]_vars
    /\ <>Finished

\* 'Planets AND_': a word, a blank and a word, three iterations of the main
\* loop on a text of twelve characters, ended by EOF.
C29_Witness ==
    /\ pc = "parse"
    /\ check = <<"P", "l", "a", "n", "e", "t", "s", " ", "A", "N", "D", "_">>
    /\ frame.iterations = 3
    /\ Len(token_list) = 3

\* A string with an escape sequence has been read in a run that ended in a
\* LexerError after the string.
C29_WitnessRaised ==
    /\ pc = "raised"
    /\ check = <<DQUOTE, BACKSLASH, "n">>
    /\ result.st = "LexerError"

(***************************************************************************)
(* evaluate(formula, chart) with the calls of _eval_node made one at a     *)
(* time: the order in which the operands of a formula are evaluated        *)
(***************************************************************************)
\* Operands taken right to left.
Children_RightFirst(node) ==
    IF node.type \in {"BINARY_OP", "COMPARISON"} THEN <<node.right, node.left>>
    ELSE IF node.type = "UNARY_OP" THEN <<node.operand>>
    ELSE IF node.type = "PROPERTY" THEN <<node.object>>
    ELSE IF node.type = "LIST"
    THEN [i \in 1..Len(node.children) |-> node.children[Len(node.children) + 1 - i]]
    ELSE <<>>

\* The nodes an _eval_* method passes to _eval_node, in the order of its
\* calls: left then right, the operand, the object, the children.
Children(node) ==
    IF node.type \in {"BINARY_OP", "COMPARISON"} THEN <<node.left, node.right>>
    ELSE IF node.type = "UNARY_OP" THEN <<node.operand>>
    ELSE IF node.type = "PROPERTY" THEN <<node.object>>
    ELSE IF node.type = "LIST" THEN node.children
    ELSE <<>>

Mars == <<"M", "a", "r", "s">>
Access(obj, prop) == obj \o <<".">> \o prop
ListText == <<"[">> \o Aries \o <<",", " ", "1", ",", " ">> \o Leo \o <<"]">>

\* Operands of a logical operator: values, failing accesses, comparisons
\* whose sides fail, a comparison Python rejects, IN without a list.
OrderOperands ==
    { TrueText,
      Access(Pluto, Sign),
      Access(Moon, Ruler),
      JoinWords(<<OpNOT, Access(Mars, House)>>),
      JoinWords(<<Access(Sun, Sign), OpEQ, Aries>>),
      JoinWords(<<Access(Pluto, Sign), OpEQ, Access(Moon, Ruler)>>),
      JoinWords(<<Access(Moon, Ruler), OpNEQ, Access(Pluto, Sign)>>),
      JoinWords(<<Access(Sun, Sign), OpLT, One>>),
      JoinWords(<<Access(Mars, Sign), OpIN, Aries>>),
      JoinWords(<<Access(Sun, Sign), OpIN, ListText>>) }
ChainOperands ==
    { TrueText,
      Access(Pluto, Sign),
      Access(Moon, Ruler),
      JoinWords(<<Access(Sun, Sign), OpLT, One>>),
      JoinWords(<<Access(Mars, Sign), OpIN, ListText>>) }
OrderFormulas ==
    OrderOperands
    \cup {JoinWords(<<A, op, B>>) : A, B \in OrderOperands,
                                    op \in {OpAND, OpOR, OpAmpAmp}}
    \cup {JoinWords(<<A, op1, B, op2, C>>) : A, B, C \in ChainOperands,
                                             op1, op2 \in {OpAND, OpOR}}
    \cup {JoinWords(<<A, OpAND, B, OpAmpAmp, C, OpBarBar, TrueText>>) :
              A, B, C \in {TrueText, Access(Pluto, Sign), Access(Moon, Ruler)}}

OrderInit ==
    /\ check \in OrderFormulas
    /\ chart_data \in SampleCharts
    /\ pc = "call"
    /\ token_list = <<>>
    /\ ast = None
    /\ result = None
    /\ stack = <<>>
    /\ visited = <<>>
    /\ stdout = <<>>
    /\ stderr = <<>>
    /\ exit_code = None
    /\ NoCache
    /\ NoScan

OrderUnchanged ==
    UNCHANGED <<check, chart_data, stdout, stderr, exit_code, cache_vars, scan_vars>>

Called(node) == [node |-> node, stage |-> 0]

\* evaluate: parse(formula), then Evaluator(chart_data).evaluate(ast) calls
\* _eval_node on the root.
ParseAndEnter ==
    /\ pc = "call"
    /\ token_list' = TokensOf(Tokenize(check))
    /\ ast' = ParseFormula(check)
    /\ IF ast'.st = "ok"
       THEN /\ stack' = <<Called(ast'.node)>>
            /\ pc' = "evaluate"
            /\ UNCHANGED result
       ELSE /\ result' = ast'
            /\ pc' = "returned"
            /\ UNCHANGED stack
    /\ UNCHANGED visited
    /\ OrderUnchanged

Top == stack[Len(stack)]

\* The running method calls _eval_node on its next operand.
Descend ==
    /\ pc = "evaluate"
    /\ Top.stage < Len(Children(Top.node))
    /\ stack' = Append(stack, Called(Children(Top.node)[Top.stage + 1]))
    /\ UNCHANGED <<pc, token_list, ast, result, visited>>
    /\ OrderUnchanged

\* The running method has the values of all its operands: it returns its
\* value to its caller, or raises and the exception leaves evaluate.
Complete ==
    /\ pc = "evaluate"
    /\ Top.stage = Len(Children(Top.node))
    /\ visited' = IF Children(Top.node) = <<>> THEN Append(visited, Top.node) ELSE visited
    /\ LET returned == EvalNode(Top.node, chart_data) IN
       IF returned.st = "ok" /\ Len(stack) > 1
       THEN /\ stack' = [SubSeq(stack, 1, Len(stack) - 1)
                            EXCEPT ![Len(stack) - 1].stage = @ + 1]
            /\ UNCHANGED <<pc, result>>
       ELSE /\ result' = returned
            /\ stack' = <<>>
            /\ pc' = "returned"
    /\ UNCHANGED <<token_list, ast>>
    /\ OrderUnchanged

OrderNext == ParseAndEnter \/ Descend \/ Complete

SpecOrder == OrderInit /\ [][OrderNext]_vars

\* The tokens of the formula without EOF, and the pieces between the tokens
\* of the given types.
FormulaTokens == SubSeq(token_list, 1, Len(token_list) - 1)

RECURSIVE SplitAt(_, _, _, _)
SplitAt(toks, types, i, part) ==
    IF i > Len(toks) THEN <<part>>
    ELSE IF toks[i].type \in types THEN <<part>> \o SplitAt(toks, types, i + 1, <<>>)
    ELSE SplitAt(toks, types, i + 1, Append(part, toks[i]))

Separators(toks, type) == SelectSeq(toks, LAMBDA t : t.type = type)

\* A piece parsed, and evaluated, as a formula of its own.
Alone(part) == ParserParse(Append(part, token_list[Len(token_list)]))
OutcomeAlone(part) == AndThen(Alone(part), LAMBDA parsed : Evaluate(parsed.node, chart_data))

\* The outcome of the first piece that fails, in the order of the text; the
\* given outcome when none fails.
FirstFailure(parts, otherwise) ==
    LET failing == {i \in 1..Len(parts) : OutcomeAlone(parts[i]).st # "ok"} IN
    IF failing = {} THEN otherwise
    ELSE OutcomeAlone(parts[CHOOSE i \in failing : \A j \in failing : i <= j])

\* op(... op(op(n1, n2), n3) ..., ni)
RECURSIVE LeftChain(_, _, _)
LeftChain(nodes, ops, i) ==
    IF i = 1 THEN nodes[1]
    ELSE BinaryOp(ops[i - 1].value, LeftChain(nodes, ops, i - 1), nodes[i])

ChainOfAnds(term) ==
    LET factors == SplitAt(term, {"AND"}, 1, <<>>)
    IN  LeftChain([k \in 1..Len(factors) |-> Alone(factors[k]).node],
                  Separators(term, "AND"), Len(factors))
ChainOfOrs(toks) ==
    LET terms == SplitAt(toks, {"OR"}, 1, <<>>)
    IN  LeftChain([k \in 1..Len(terms) |-> ChainOfAnds(terms[k])],
                  Separators(toks, "OR"), Len(terms))

\* The sides of the comparison in an operand, the NOTs before it set aside.
Sides(operand) ==
    SplitAt(SelectSeq(operand, LAMBDA t : t.type # "NOT"), ComparisonTokenTypes, 1, <<>>)

\* The leaves of the AST in the order of the text: identifiers that are not
\* property names, literals, aggregators.
RECURSIVE SourceLeaves(_, _)
SourceLeaves(toks, i) ==
    IF i > Len(toks) THEN <<>>
    ELSE IF toks[i].type \in {"PLANETS", "ASPECTS", "HOUSES"}
    THEN <<Aggregator(toks[i].value, toks[i + 2].value)>> \o SourceLeaves(toks, i + 3)
    ELSE IF toks[i].type = "IDENTIFIER"
    THEN <<Identifier(toks[i].value)>>
         \o SourceLeaves(toks, IF i < Len(toks) /\ toks[i + 1].type = "DOT"
                               THEN i + 3 ELSE i + 1)
    ELSE IF toks[i].type = "NUMBER"
    THEN <<NumberNode(NumberOfText(toks[i].value).val)>> \o SourceLeaves(toks, i + 1)
    ELSE IF toks[i].type = "STRING"
    THEN <<StringNode(toks[i].value)>> \o SourceLeaves(toks, i + 1)
    ELSE IF toks[i].type = "BOOLEAN"
    THEN <<BooleanNode(toks[i].value = TrueText)>> \o SourceLeaves(toks, i + 1)
    ELSE SourceLeaves(toks, i + 1)

IsPrefixOf(s, t) == Len(s) <= Len(t) /\ SubSeq(t, 1, Len(s)) = s

WalkEnded == pc = "returned" /\ ast.st = "ok"

\* C30: operands are evaluated left to right: the AST of a chain of ANDs and
\* ORs is the left-associated chain of its operands, the leaves are evaluated
\* in the order of the text up to the first failure, and the outcome is the
\* error of the leftmost operand that fails on its own (of the leftmost
\* failing side, within a comparison), a value when none fails.
C30_LeftToRight ==
    /\ pc \in {"evaluate", "returned"} /\ ast.st = "ok" =>
           IsPrefixOf(visited, SourceLeaves(FormulaTokens, 1))
    /\ WalkEnded =>
           LET operands == SplitAt(FormulaTokens, {"AND", "OR"}, 1, <<>>) IN
           /\ ast.node = ChainOfOrs(FormulaTokens)
           /\ result = Evaluate(ast.node, chart_data)
           /\ result.st = "ok" => visited = SourceLeaves(FormulaTokens, 1)
           /\ IF FirstFailure(operands, None) = None THEN result.st = "ok"
              ELSE result = FirstFailure(operands, None)
           /\ \A i \in 1..Len(operands) :
                  OutcomeAlone(operands[i])
                      = FirstFailure(Sides(operands[i]), OutcomeAlone(operands[i]))

\* 'Pluto.Sign AND Moon.Ruler OR True' on the chart with Sun and Moon: both
\* accesses fail, the error is the one of Pluto.Sign, and Moon was never
\* evaluated.
C30_Witness ==
    /\ WalkEnded
    /\ check = JoinWords(<<Access(Pluto, Sign), OpAND, Access(Moon, Ruler), OpOR, TrueText>>)
    /\ IsPlanet(Moon, chart_data)
    /\ ast.node = BinaryOp(OpOR, BinaryOp(OpAND, Property(Identifier(Pluto), Sign),
                                                 Property(Identifier(Moon), Ruler)),
                           BooleanNode(TRUE))
    /\ result = ObjectNotFound(Pluto, chart_data)
    /\ visited = <<Identifier(Pluto)>>

\* 'True AND True AND Mars.Sign IN [Aries, 1, Leo]': the leaves before the
\* failing access were evaluated in the order of the text, the list never.
C30_WitnessOrder ==
    /\ WalkEnded
    /\ check = JoinWords(<<TrueText, OpAND, TrueText, OpAND,
                           JoinWords(<<Access(Mars, Sign), OpIN, ListText>>)>>)
    /\ result.st # "ok"
    /\ visited = <<BooleanNode(TRUE), BooleanNode(TRUE), Identifier(Mars)>>

\* 'True OR Sun.Sign IN [Aries, 1, Leo]' has a value, and its leaves were
\* evaluated in the order of the text.
C30_WitnessValue ==
    /\ WalkEnded
    /\ check = JoinWords(<<TrueText, OpOR, JoinWords(<<Access(Sun, Sign), OpIN, ListText>>)>>)
    /\ result = Ok(PyBoolV(TRUE))
    /\ visited = <<BooleanNode(TRUE), Identifier(Sun), Identifier(Aries),
                   NumberNode(PyInt(1)), Identifier(Leo)>>

\* 'Pluto.Sign == Moon.Ruler' within a comparison: the left side's error.
C30_WitnessComparison ==
    /\ WalkEnded
    /\ check = JoinWords(<<Access(Pluto, Sign), OpEQ, Access(Moon, Ruler)>>)
    /\ IsPlanet(Moon, chart_data)
    /\ result = ObjectNotFound(Pluto, chart_data)

====
